---- MODULE Spec2Model ----
(***************************************************************************)
(* Decision-to-execution pipeline of the MT5 trading backend:              *)
(*   backend/ai/executor.py        TradeIdeaExecutor                       *)
(*   backend/ai_routes.py          in-memory control surface               *)
(*   backend/trade_approval_routes.py  file-backed approval surface        *)
(*   backend/ai/engine.py, emnr.py, confidence.py, scheduler.py            *)
(*                                 trade idea factory and its chain        *)
(*   backend/ai/ai_logger.py       decision log                            *)
(*   backend/tasks/ai_tasks.py     scheduled evaluation                    *)
(*   backend/app.py                daily P&L from the order log            *)
(*                                                                         *)
(* Units.  Python floats are modelled as scaled integers:                  *)
(*   volume            hundredths of a lot        (0.01 lot  = 1)          *)
(*   rr_ratio          hundredths                 (2.0       = 200)        *)
(*   riskPct (string)  thousandths                ("0.015"   = 15)         *)
(*   risk cap (float)  1e-5                       (0.025     = 2500)       *)
(*   money (P&L, loss limit)  cents               (500.0     = 50000)      *)
(*   prices            points (integers)                                   *)
(* HTTP handlers are `async def` bodies without a suspending await, so one *)
(* handler runs to completion on the event loop: one action per handler.   *)
(***************************************************************************)
EXTENDS Integers, Sequences, FiniteSets, TLC

\* ------------------------------------------------------------------ bounds
MaxIdeas == 2
MaxFiles == 1
MaxVenueCalls == 2
MaxLogRows == 2

\* ------------------------------------------------------- program constants
MinRR == 200
MinConfidence == 75
MaxRiskPct == 5000
PnlPerLot == 10
FactoryVolume == 1
ObserveBelow == 60
PendingBelow == 75
ReducedRiskCap == 2000
W_entry == 30
W_strong == 25
W_weak == 0 - 15
W_exit == 0 - 40
W_align == 10
FactoryNewsPenalty == 0
MinBars == 50
ResultCodeOk == 10000

Statuses == {"pending_approval", "approved", "rejected", "executed", "cancelled"}
Terminal == {"rejected", "executed", "cancelled"}
Symbols == {"EURUSD", "GBPUSD"}

\* --------------------------------------------------------------- helpers
Abs(x) == IF x < 0 THEN 0 - x ELSE x
Min2(a, b) == IF a < b THEN a ELSE b
Max2(a, b) == IF a > b THEN a ELSE b
Clamp(lo, hi, x) == Max2(lo, Min2(hi, x))

\* Python round(n/d) for n >= 0, d > 0: nearest integer, ties to even.
RoundHalfEven(n, d) ==
    LET q == n \div d
        r == n % d
    IN  IF 2 * r < d THEN q
        ELSE IF 2 * r > d THEN q + 1
        ELSE IF q % 2 = 0 THEN q ELSE q + 1

\* A decimal string is <<"dec", thousandths>>; any other text is <<"text", s>>.
\* f"{x:.3f}" of a float x >= 0 held as a whole number of 1e-5: the nearest
\* thousandth.  A value that ends in ...5e-4 is not a binary float; the float
\* nearest to (q + 0.5) / 1000 lies above it for the q of HalfRoundsUp and
\* below it for the others, and the formatting rounds that float.
HalfRoundsUp ==
    {0, 1, 2, 3, 8, 10, 12, 14, 16, 17, 20, 23, 24, 27, 28, 31, 32, 33, 34, 39,
     40, 41, 42, 47, 48, 49, 50}
Format3f(x) ==
    LET q == x \div 100
        r == x % 100
    IN  <<"dec", IF r > 50 \/ (r = 50 /\ q \in HalfRoundsUp) THEN q + 1 ELSE q>>
\* float(s): [ok |-> TRUE, val |-> thousandths] or a ValueError.
ParseFloat(s) ==
    IF s[1] = "dec" THEN [ok |-> TRUE, val |-> s[2]]
    ELSE [ok |-> FALSE, val |-> 0]

\* ------------------------------------------------ daily loss (risk.py, app.py)
\* The daily_loss_limit_r cell of config/risk_limits.csv as risk_limits() and
\* float(limits.get("daily_loss_limit_r", 0) or 0) see it:
\*   <<"raises">>  the file cannot be read as key/value rows (exception)
\*   <<"absent">>  no such key (or no file): the default 0
\*   <<"dec", c>>  a number, in cents;  <<"text", s>>  not a number (ValueError)
DailyLimit(limitsFile) ==
    IF limitsFile[1] = "raises" THEN [ok |-> FALSE, val |-> 0]
    ELSE IF limitsFile[1] = "absent" THEN [ok |-> TRUE, val |-> 0]
    ELSE ParseFloat(limitsFile)

\* One row of logs/orders.csv: today (ts_utc starts with today's date),
\* result_code and volume as the CSV cells <<"dec", n>>, <<"empty">>, <<"text", s>>.
\* The contribution of one row to the day's P&L, or a ValueError.
RowPnl(row) ==
    IF ~row.today THEN [ok |-> TRUE, val |-> 0]
    ELSE IF row.result_code[1] = "empty" THEN [ok |-> TRUE, val |-> 0]
    ELSE IF row.result_code[1] = "text" THEN [ok |-> FALSE, val |-> 0]
    ELSE IF row.result_code[2] < ResultCodeOk THEN [ok |-> TRUE, val |-> 0]
    ELSE IF row.volume[1] = "empty" THEN [ok |-> TRUE, val |-> 0]
    ELSE IF row.volume[1] = "text" THEN [ok |-> FALSE, val |-> 0]
    ELSE [ok |-> TRUE, val |-> 0 - (row.volume[2] * PnlPerLot)]

RECURSIVE SumPnl(_, _)
SumPnl(rows, acc) ==
    IF rows = <<>> THEN [ok |-> TRUE, val |-> acc]
    ELSE LET r == RowPnl(Head(rows))
         IN  IF ~r.ok THEN r ELSE SumPnl(Tail(rows), acc + r.val)

\* _calculate_daily_pnl(): cents, or an exception from a malformed row.
CalculateDailyPnl(orders) == SumPnl(orders, 0)

\* Faulty variant: the limit blocks only once the loss is strictly beyond it.
DailyLossErrors_strict(limitsFile, orders) ==
    LET lim == DailyLimit(limitsFile)
        pnl == CalculateDailyPnl(orders)
    IN  IF lim.ok /\ lim.val > 0 /\ pnl.ok /\ pnl.val < 0 - Abs(lim.val)
        THEN << <<"daily_loss", pnl.val>> >> ELSE <<>>

\* Faulty variant: a limit or a P&L that cannot be read blocks the trade.
DailyLossErrors_fail_closed(limitsFile, orders) ==
    LET lim == DailyLimit(limitsFile)
    IN  IF ~lim.ok THEN << <<"daily_loss_unknown", 0>> >>
        ELSE IF lim.val > 0
             THEN LET pnl == CalculateDailyPnl(orders)
                  IN  IF ~pnl.ok THEN << <<"daily_loss_unknown", 0>> >>
                      ELSE IF pnl.val <= 0 - Abs(lim.val)
                           THEN << <<"daily_loss", pnl.val>> >>
                           ELSE <<>>
             ELSE <<>>

\* The daily-loss block of validate_execution_safety: the errors it appends.
DailyLossErrors(limitsFile, orders) ==
    LET lim == DailyLimit(limitsFile)
    IN  IF ~lim.ok THEN <<>>
        ELSE IF lim.val > 0
             THEN LET pnl == CalculateDailyPnl(orders)
                  IN  IF ~pnl.ok THEN <<>>
                      ELSE IF pnl.val <= 0 - Abs(lim.val)
                           THEN << <<"daily_loss", pnl.val>> >>
                           ELSE <<>>
             ELSE <<>>

\* ------------------------------------------------------ executor.py
\* mt5_client.get_symbol_info(symbol) as the executor sees it:
\*   <<"info", [volume_min, volume_max, volume_step]>>, <<"none">> (falsy) or
\*   <<"raises">> (the call throws).
SymbolErrors(sym) ==
    IF sym[1] = "raises" THEN << <<"symbol_error", 0>> >>
    ELSE IF sym[1] = "none" THEN << <<"symbol_not_found", 0>> >>
    ELSE <<>>

RiskPctErrors(riskPct) ==
    LET p == ParseFloat(riskPct)
    IN  IF ~p.ok THEN << <<"risk_invalid", 0>> >>
        ELSE IF p.val <= 0 \/ p.val > MaxRiskPct THEN << <<"risk_range", p.val>> >>
        ELSE <<>>

\* Faulty variant: validation stops at the first failing check.
validate_first_failure(idea, limitsFile, orders, sym) ==
    LET errors ==
            (IF idea.status # "approved" THEN << <<"status", idea.status>> >> ELSE <<>>)
         \o (IF idea.rr_ratio < MinRR THEN << <<"rr", idea.rr_ratio>> >> ELSE <<>>)
         \o (IF idea.confidence < MinConfidence
             THEN << <<"confidence", idea.confidence>> >> ELSE <<>>)
         \o (IF idea.volume <= 0 THEN << <<"volume", idea.volume>> >> ELSE <<>>)
         \o DailyLossErrors(limitsFile, orders)
         \o SymbolErrors(sym)
         \o RiskPctErrors(idea.riskPct)
    IN  [valid |-> Len(errors) = 0,
         errors |-> IF errors = <<>> THEN <<>> ELSE <<Head(errors)>>]

\* Faulty variant: the confidence check is left out.
validate_skips_confidence(idea, limitsFile, orders, sym) ==
    LET errors ==
            (IF idea.status # "approved" THEN << <<"status", idea.status>> >> ELSE <<>>)
         \o (IF idea.rr_ratio < MinRR THEN << <<"rr", idea.rr_ratio>> >> ELSE <<>>)
         \o (IF idea.volume <= 0 THEN << <<"volume", idea.volume>> >> ELSE <<>>)
         \o DailyLossErrors(limitsFile, orders)
         \o SymbolErrors(sym)
         \o RiskPctErrors(idea.riskPct)
    IN  [valid |-> Len(errors) = 0, errors |-> errors]

\* TradeIdeaExecutor.validate_execution_safety: [valid, errors].
validate_execution_safety(idea, limitsFile, orders, sym) ==
    LET errors ==
            (IF idea.status # "approved" THEN << <<"status", idea.status>> >> ELSE <<>>)
         \o (IF idea.rr_ratio < MinRR THEN << <<"rr", idea.rr_ratio>> >> ELSE <<>>)
         \o (IF idea.confidence < MinConfidence
             THEN << <<"confidence", idea.confidence>> >> ELSE <<>>)
         \o (IF idea.volume <= 0 THEN << <<"volume", idea.volume>> >> ELSE <<>>)
         \o DailyLossErrors(limitsFile, orders)
         \o SymbolErrors(sym)
         \o RiskPctErrors(idea.riskPct)
    IN  [valid |-> Len(errors) = 0, errors |-> errors]

\* round(volume / volume_step) * volume_step, volume and step in hundredths.
\* The quotient is a float: where volume is halfway between two multiples of
\* the step, the float quotient is either the exact k + 0.5 (rounded to the
\* even neighbour) or, for the <<volume, step>> pairs of QuotientBelowHalf
\* (steps 0.10 and 0.20, volumes up to 1.30), just below it (rounded down).
QuotientBelowHalf ==
    {<<15, 10>>, <<35, 10>>, <<95, 10>>, <<115, 10>>, <<30, 20>>, <<70, 20>>}
RoundQuotient(volume, step) ==
    IF <<volume, step>> \in QuotientBelowHalf THEN volume \div step
    ELSE RoundHalfEven(volume, step)
RoundToStep(volume, step) ==
    IF volume >= 0 THEN RoundQuotient(volume, step) * step
    ELSE 0 - (RoundQuotient(0 - volume, step) * step)

\* TradeIdeaExecutor.calculate_position_size: the volume, in hundredths of a lot.
calculate_position_size(idea, sym) ==
    IF ~ParseFloat(idea.riskPct).ok THEN idea.volume
    ELSE IF sym[1] # "info" THEN idea.volume
    ELSE IF sym[2].volume_step = 0 THEN idea.volume
    ELSE Clamp(sym[2].volume_min, sym[2].volume_max,
               RoundToStep(idea.volume, sym[2].volume_step))

\* One row of ai_executions.csv (_log_execution): volume or idea.volume,
\* order_id or "".
LogRow(idea, success, order_id, volume, error) ==
    [idea_id |-> idea.id, confidence |-> idea.confidence,
     volume |-> IF volume # 0 THEN volume ELSE idea.volume,
     order_id |-> order_id, success |-> success, error |-> error]

\* _log_execution's write: open(path, "a") and writerow inside try/except,
\* so a log that cannot be written leaves the file as it was and the caller
\* is not told.  writable is whether the append succeeds.
log_execution(log, row, writable) ==
    IF writable THEN Append(log, row) ELSE log

\* Faulty variant: the order is submitted whatever the validation says.
execute_without_gate(idea, limitsFile, orders, symV, symS, venue) ==
    LET volume == calculate_position_size(idea, symS)
        order == [idea_id |-> idea.id, symbol |-> idea.symbol,
                  order_type |-> IF idea.direction = "long" THEN "buy" ELSE "sell",
                  volume |-> volume, sl |-> idea.stop_loss, tp |-> idea.take_profit,
                  outcome |-> venue[1]]
    IN  IF venue[1] = "accepted"
        THEN [success |-> TRUE, order_id |-> venue[2], error |-> <<"none", <<>> >>,
              placed |-> <<order>>, row |-> LogRow(idea, TRUE, venue[2], volume, "")]
        ELSE [success |-> FALSE, order_id |-> 0, error |-> <<"venue", <<>> >>,
              placed |-> <<order>>, row |-> LogRow(idea, FALSE, 0, volume, "venue")]

\* mt5_client.place_order(...) as the executor sees it:
\*   <<"accepted", order_id>>, <<"rejected", error>> or <<"raises">>.
\* TradeIdeaExecutor.execute_trade_idea: the ExecutionResult, the place_order
\* call (if made) and the audit row.
execute_trade_idea(idea, limitsFile, orders, symV, symS, venue) ==
    LET validation == validate_execution_safety(idea, limitsFile, orders, symV)
        volume == calculate_position_size(idea, symS)
        order == [idea_id |-> idea.id, symbol |-> idea.symbol,
                  order_type |-> IF idea.direction = "long" THEN "buy" ELSE "sell",
                  volume |-> volume, sl |-> idea.stop_loss, tp |-> idea.take_profit,
                  outcome |-> venue[1]]
    IN  IF ~validation.valid
        THEN [success |-> FALSE, order_id |-> 0, error |-> <<"validation", validation.errors>>,
              placed |-> <<>>,
              row |-> LogRow(idea, FALSE, 0, 0, "validation")]
        ELSE IF venue[1] = "accepted"
        THEN [success |-> TRUE, order_id |-> venue[2], error |-> <<"none", <<>> >>,
              placed |-> <<order>>,
              row |-> LogRow(idea, TRUE, venue[2], volume, "")]
        ELSE IF venue[1] = "rejected"
        THEN [success |-> FALSE, order_id |-> 0, error |-> <<"venue", <<>> >>,
              placed |-> <<order>>,
              row |-> LogRow(idea, FALSE, 0, volume, "venue")]
        ELSE [success |-> FALSE, order_id |-> 0, error |-> <<"exception", <<>> >>,
              placed |-> <<order>>,
              row |-> LogRow(idea, FALSE, 0, 0, "exception")]

\* ------------------------------------------- the trade idea factory (engine.py)
\* emnr.evaluate_conditions: facts is a function from the fact names present
\* to BOOLEAN, conditions gives, for the categories it has, the names required
\* (a list in the code, of which only the membership matters to all()).
\* Faulty variant: all() of an empty list.
FlagOf_vacuous(facts, required) ==
    \A n \in required : IF n \in DOMAIN facts THEN facts[n] ELSE FALSE

FlagOf(facts, required) ==
    IF required = {} THEN FALSE
    ELSE \A n \in required : IF n \in DOMAIN facts THEN facts[n] ELSE FALSE

\* conditions.get(condition_type, [])
RequiredOf(conditions, condition_type) ==
    IF condition_type \in DOMAIN conditions THEN conditions[condition_type] ELSE {}

evaluate_conditions(facts, conditions) ==
    [entry |-> FlagOf(facts, RequiredOf(conditions, "entry")),
     exit |-> FlagOf(facts, RequiredOf(conditions, "exit")),
     strong |-> FlagOf(facts, RequiredOf(conditions, "strong")),
     weak |-> FlagOf(facts, RequiredOf(conditions, "weak"))]

\* confidence.confidence_score
RawScore(flags, align_ok, news_penalty) ==
      (IF flags.entry THEN W_entry ELSE 0) + (IF flags.strong THEN W_strong ELSE 0)
    + (IF flags.weak THEN W_weak ELSE 0) + (IF flags.exit THEN W_exit ELSE 0)
    + (IF align_ok THEN W_align ELSE 0) + news_penalty

\* Faulty variant: the sum without the clamp.
confidence_unclamped(flags, align_ok, news_penalty) ==
    RawScore(flags, align_ok, news_penalty)

confidence_score(flags, align_ok, news_penalty) ==
    Max2(0, Min2(100, RawScore(flags, align_ok, news_penalty)))

\* confidence.get_score_breakdown
get_score_breakdown(flags, align_ok, news_penalty) ==
    LET breakdown == [entry |-> IF flags.entry THEN W_entry ELSE 0,
                      strong |-> IF flags.strong THEN W_strong ELSE 0,
                      weak |-> IF flags.weak THEN W_weak ELSE 0,
                      exit |-> IF flags.exit THEN W_exit ELSE 0,
                      align |-> IF align_ok THEN W_align ELSE 0,
                      news_penalty |-> news_penalty]
        raw_total == breakdown.entry + breakdown.strong + breakdown.weak
                     + breakdown.exit + breakdown.align + breakdown.news_penalty
    IN  [entry |-> breakdown.entry, strong |-> breakdown.strong, weak |-> breakdown.weak,
         exit |-> breakdown.exit, align |-> breakdown.align,
         news_penalty |-> breakdown.news_penalty, raw_total |-> raw_total,
         final_score |-> Max2(0, Min2(100, raw_total))]

\* scheduler.schedule_action; risk_cap is a whole, even number of 1e-5 (so
\* that risk_cap / 2 is a whole number of them), the riskPct a decimal string.
schedule_action(confidence, min_rr_ok, risk_cap) ==
    IF confidence < ObserveBelow THEN [action |-> "observe", riskPct |-> <<"dec", 0>>]
    ELSE IF confidence < PendingBelow
    THEN [action |-> "pending_only",
          riskPct |-> Format3f(Min2(risk_cap \div 2, ReducedRiskCap))]
    ELSE IF ~min_rr_ok THEN [action |-> "wait_rr", riskPct |-> <<"dec", 0>>]
    ELSE [action |-> "open_or_scale", riskPct |-> Format3f(risk_cap)]

\* An attribute lookup obj.name succeeds only when the object has it.
HasAttr(obj, name) == name \in DOMAIN obj

\* AIEngine._check_alignment: any exception inside (a missing attribute
\* included) is caught and gives False.  session is the clock's session.
check_alignment(timeframe, profile, rules, session) ==
    IF ~HasAttr(profile, "bestTimeframes") THEN FALSE
    ELSE IF timeframe \notin profile.bestTimeframes THEN FALSE
    ELSE IF ~HasAttr(profile, "bestSessions") THEN FALSE
    ELSE session \in profile.bestSessions \/ session \in rules.sessions

\* AIEngine._calculate_sl_tp. Prices and the ATR are whole ticks (1e-5), the
\* ATR multiplier is in tenths and the target ratio in hundredths; atr is
\* <<"num", a>> or <<"none">> (a missing reading makes the arithmetic throw).
\* Whatever throws inside the try, a missing attribute of the profile
\* included, ends in the percentage fallback.
calculate_sl_tp(entry_price, direction, atr, profile) ==
    IF atr[1] # "num" \/ ~HasAttr(profile, "management") \/ ~HasAttr(profile, "style")
    THEN IF direction = "long"
         THEN [sl |-> RoundHalfEven(entry_price * 99, 100),
               tp |-> RoundHalfEven(entry_price * 102, 100), rr |-> 200]
         ELSE [sl |-> RoundHalfEven(entry_price * 101, 100),
               tp |-> RoundHalfEven(entry_price * 98, 100), rr |-> 200]
    ELSE LET risk == atr[2] * profile.management.atrMultiplier
             reward == atr[2] * profile.management.atrMultiplier * profile.style.rrTarget
             rr == IF risk > 0 THEN RoundHalfEven(reward, risk) ELSE 0
         IN  IF direction = "long"
             THEN [sl |-> RoundHalfEven(entry_price * 10 - risk, 10),
                   tp |-> RoundHalfEven(entry_price * 1000 + reward, 1000), rr |-> rr]
             ELSE [sl |-> RoundHalfEven(entry_price * 10 + risk, 10),
                   tp |-> RoundHalfEven(entry_price * 1000 - reward, 1000), rr |-> rr]

\* ai_logger.log_decision(log_path, decision): log_path.parent is read before
\* the try, so a log_path that is a str and not a Path raises AttributeError;
\* an IOError of the append is caught and gives False.
\*   <<"raises">>, or <<"returned", ok, the log afterwards>>
log_decision(log, row, pathType, writable) ==
    IF pathType # "Path" THEN <<"raises">>
    ELSE IF writable THEN <<"returned", TRUE, Append(log, row)>>
    ELSE <<"returned", FALSE, log>>

\* What one evaluation cycle reads: the rule store, the profile store, the
\* bars, the indicator maths and the clock (session).
\*   rules, profile : <<"absent">> or <<"loaded", object>>, the object an
\*                    EMNRRules / a SymbolProfile as its __init__ builds it
\*   indicators     : <<"none">> (not computed) or <<"ok", atr, facts>>
NoIdea == [id |-> 0]
Aborted == [idea |-> NoIdea, logged |-> FALSE, row |-> <<>>]

\* A decision record.  Of its timestamp the model keeps what
\* clear_old_decisions asks of it: "recent" (at or after the cutoff), "old"
\* (before it) or "invalid" (fromisoformat throws).
DecisionRow(symbol, confidence, action, timestamp) ==
    [symbol |-> symbol, confidence |-> confidence, action |-> action,
     timestamp |-> timestamp]

\* ai_logger.clear_old_decisions(log_path, days_to_keep): rewrites the file
\* (mode "w") with the rows whose timestamp is at or after the cutoff and the
\* rows whose timestamp does not parse; an IOError leaves the file as it was.
clear_old_decisions(log, io_ok) ==
    IF ~io_ok THEN log
    ELSE SelectSeq(log, LAMBDA d : d.timestamp # "old")

\* Faulty variant: no gate, no exception: an idea and a record every cycle.
evaluate_unguarded(id, symbol, force, enabled, rules, profile, bars, price, indicators, session) ==
    [idea |-> [id |-> id, symbol |-> symbol, direction |-> "long",
               status |-> "pending_approval", confidence |-> 0, rr_ratio |-> 200,
               volume |-> FactoryVolume, riskPct |-> <<"dec", 0>>, action |-> "observe",
               entry_price |-> price, stop_loss |-> RoundHalfEven(price * 99, 100),
               take_profit |-> RoundHalfEven(price * 102, 100)],
     logged |-> TRUE, row |-> <<DecisionRow(symbol, 0, "observe", "recent")>>]

\* AIEngine.evaluate: the TradeIdea (or NoIdea), whether a decision record was
\* written, and the record.  The body runs inside try/except Exception, which
\* returns None: so does every attribute the objects do not have
\* (rules.strategy, profile.style), and so does log_decision, which evaluate
\* calls with str(log_path).
evaluate(id, symbol, force, enabled, rules, profile, bars, price, indicators, session) ==
    IF ~enabled /\ ~force THEN Aborted
    ELSE IF rules[1] # "loaded" THEN Aborted
    ELSE IF profile[1] # "loaded" THEN Aborted
    ELSE IF bars < MinBars THEN Aborted
    ELSE IF indicators[1] # "ok" THEN Aborted
    ELSE LET flags == evaluate_conditions(indicators[3], rules[2].conditions)
             align_ok == check_alignment("H1", profile[2], rules[2], session)
             confidence == confidence_score(flags, align_ok, FactoryNewsPenalty)
         IN  IF ~HasAttr(rules[2], "strategy") THEN Aborted
             ELSE LET direction == rules[2].strategy.direction
                      levels == calculate_sl_tp(price, direction, indicators[2], profile[2])
                      min_rr_ok == levels.rr >= rules[2].strategy.min_rr
                  IN  IF ~HasAttr(profile[2], "style") THEN Aborted
                      ELSE LET plan == schedule_action(confidence, min_rr_ok,
                                                       profile[2].style.maxRiskPct)
                               row == DecisionRow(symbol, confidence, plan.action, "recent")
                               written == log_decision(<<>>, row, "str", TRUE)
                           IN  IF written[1] = "raises" THEN Aborted
                               ELSE [idea |-> [id |-> id, symbol |-> symbol,
                                               direction |-> direction,
                                               status |-> "pending_approval",
                                               confidence |-> confidence,
                                               rr_ratio |-> levels.rr,
                                               volume |-> FactoryVolume,
                                               riskPct |-> plan.riskPct,
                                               action |-> plan.action,
                                               entry_price |-> price,
                                               stop_loss |-> levels.sl,
                                               take_profit |-> levels.tp],
                                     logged |-> written[2], row |-> <<row>>]

\* ------------------------------------------- the autonomy loop (autonomy_loop.py)
\* The BackgroundScheduler the loop owns, as far as the loop uses it:
\*   state   "stopped" or "running"
\*   jobs    the jobs in its job store, each [id, minutes]
\*   pending the jobs added while it was stopped, stored when it starts
NewScheduler == [state |-> "stopped", jobs |-> <<>>, pending |-> <<>>]
JobId == "ai_evaluation"

\* The jobs of a sequence whose id is not JobId.
RECURSIVE OtherJobs(_)
OtherJobs(jobs) ==
    IF jobs = <<>> THEN <<>>
    ELSE IF Head(jobs).id = JobId THEN OtherJobs(Tail(jobs))
    ELSE <<Head(jobs)>> \o OtherJobs(Tail(jobs))

\* scheduler.add_job(func, IntervalTrigger(minutes), id=JobId, replace_existing=True)
add_job(sched, minutes) ==
    LET job == [id |-> JobId, minutes |-> minutes]
    IN  IF sched.state = "stopped"
        THEN [sched EXCEPT !.pending = OtherJobs(@) \o <<job>>]
        ELSE [sched EXCEPT !.jobs = OtherJobs(@) \o <<job>>]

\* scheduler.start(): <<"raises">> (SchedulerAlreadyRunningError) or <<"ok", s>>
scheduler_start(sched) ==
    IF sched.state # "stopped" THEN <<"raises">>
    ELSE <<"ok", [sched EXCEPT !.state = "running",
                               !.jobs = IF sched.pending = <<>> THEN @
                                        ELSE OtherJobs(@) \o sched.pending,
                               !.pending = <<>>]>>

\* scheduler.remove_job(JobId): <<"raises">> (JobLookupError) or <<"ok", s>>
remove_job(sched) ==
    IF OtherJobs(sched.pending) # sched.pending
    THEN <<"ok", [sched EXCEPT !.pending = OtherJobs(@)]>>
    ELSE IF OtherJobs(sched.jobs) # sched.jobs
    THEN <<"ok", [sched EXCEPT !.jobs = OtherJobs(@)]>>
    ELSE <<"raises">>

\* scheduler.shutdown(wait=False): <<"raises">> (SchedulerNotRunningError) or <<"ok", s>>
scheduler_shutdown(sched) ==
    IF sched.state = "stopped" THEN <<"raises">>
    ELSE <<"ok", [sched EXCEPT !.state = "stopped"]>>

\* AutonomyLoop.__init__
DefaultInterval == 15
NewLoop ==
    [is_running |-> FALSE, evaluation_interval_minutes |-> DefaultInterval,
     evaluation_count |-> 0, error_count |-> 0, last_evaluation_time |-> 0,
     scheduler |-> NewScheduler]

\* What get_status reports of the loop's own fields.
get_status(loop) ==
    [running |-> loop.is_running, interval_minutes |-> loop.evaluation_interval_minutes,
     evaluation_count |-> loop.evaluation_count, error_count |-> loop.error_count]

\* Faulty variant: start without the is_running test.
start_unguarded(loop, interval_minutes) ==
    LET l1 == [loop EXCEPT !.evaluation_interval_minutes = interval_minutes,
                           !.scheduler = add_job(@, interval_minutes)]
        started == scheduler_start(l1.scheduler)
    IN  IF started[1] = "raises"
        THEN [loop |-> l1, success |-> FALSE, message |-> "error", status |-> get_status(l1)]
        ELSE LET l2 == [l1 EXCEPT !.scheduler = started[2], !.is_running = TRUE]
             IN  [loop |-> l2, success |-> TRUE, message |-> "started",
                  status |-> get_status(l2)]

\* AutonomyLoop.start(interval_minutes): the loop afterwards and the result.
start(loop, interval_minutes) ==
    IF loop.is_running
    THEN [loop |-> loop, success |-> FALSE, message |-> "already running",
          status |-> get_status(loop)]
    ELSE LET l1 == [loop EXCEPT !.evaluation_interval_minutes = interval_minutes,
                                !.scheduler = add_job(@, interval_minutes)]
             started == scheduler_start(l1.scheduler)
         IN  IF started[1] = "raises"
             THEN [loop |-> l1, success |-> FALSE, message |-> "error",
                   status |-> get_status(l1)]
             ELSE LET l2 == [l1 EXCEPT !.scheduler = started[2], !.is_running = TRUE]
                  IN  [loop |-> l2, success |-> TRUE, message |-> "started",
                       status |-> get_status(l2)]

\* Faulty variant: stop that clears the flag and leaves the timer armed.
stop_flag_only(loop) ==
    IF ~loop.is_running
    THEN [loop |-> loop, success |-> FALSE, message |-> "not running",
          status |-> get_status(loop)]
    ELSE LET l1 == [loop EXCEPT !.is_running = FALSE]
         IN  [loop |-> l1, success |-> TRUE, message |-> "stopped",
              status |-> get_status(l1)]

\* AutonomyLoop.stop(): the loop afterwards and the result.
stop(loop) ==
    IF ~loop.is_running
    THEN [loop |-> loop, success |-> FALSE, message |-> "not running",
          status |-> get_status(loop)]
    ELSE LET removed == remove_job(loop.scheduler)
         IN  IF removed[1] = "raises"
             THEN [loop |-> loop, success |-> FALSE, message |-> "error",
                   status |-> get_status(loop)]
             ELSE LET l1 == [loop EXCEPT !.scheduler = removed[2]]
                      down == scheduler_shutdown(l1.scheduler)
                  IN  IF down[1] = "raises"
                      THEN [loop |-> l1, success |-> FALSE, message |-> "error",
                            status |-> get_status(l1)]
                      ELSE LET l2 == [l1 EXCEPT !.scheduler = down[2],
                                                !.is_running = FALSE]
                           IN  [loop |-> l2, success |-> TRUE, message |-> "stopped",
                                status |-> get_status(l2)]

\* The threads a batch (_evaluate_all_symbols) can run on: the scheduler's
\* worker (one instance of the job at a time) and the callers of evaluate_now.
\* Of each the model keeps the batch's position and locals:
\*   pc          "idle", "loop" (in the for of line 212), "read_eval" and
\*               "write_eval" (the load and the store of line 236), "read_err"
\*               and "write_err" (the load and the store of line 237)
\*   symbols     the registry the batch was given (enabled_symbols)
\*   todo        the symbols of it not yet evaluated
\*   called      how often the callback was invoked per symbol in this batch
\*   error_count the local error_count
\*   tmp         the value a += has loaded and not yet stored
LoopThreads == {"timer", "now1", "now2"}
IdleThread ==
    [pc |-> "idle", symbols |-> <<>>, todo |-> <<>>, called |-> <<>>,
     error_count |-> 0, tmp |-> 0]
NoThreads == [t \in LoopThreads |-> IdleThread]

\* ------------------------------------------------------------------ state
VARIABLES
    aiEngine,        \* ai_routes._ai_engine is not None
    executorMade,    \* ai_routes._executor is not None
    settingsEnabled, \* AIEngine.settings["enabled"]
    enabledSymbols,  \* keys of ai_routes._enabled_symbols
    activeIdeas,     \* ai_routes._active_trade_ideas, a list of TradeIdea
    nextId,          \* the clock the factory stamps identities from
    files,           \* data/trade_ideas/*.json: file id -> document or NoFile
    venueOrders,     \* the place_order calls made on the venue adapter
    executionLog,    \* rows of logs/ai_executions.csv
    decisionLog,     \* rows of data/ai/indicators/*_decisions.csv
    ordersLog,       \* rows of logs/orders.csv
    limitsFile,      \* daily_loss_limit_r in config/risk_limits.csv
    wiring,          \* how the executor dependency of a route is resolved
    loop,            \* the AutonomyLoop object (its fields and its scheduler)
    threads,         \* the batches of the loop in flight, per thread
    tally,           \* what the batches begun so far have done (observer)
    prevResp,        \* the response of the lifecycle request before the latest
    lastResp,        \* the response of the latest lifecycle request
    call             \* the latest direct call of a TradeIdeaExecutor method

memVars == <<aiEngine, executorMade, settingsEnabled, enabledSymbols, activeIdeas, nextId>>
venueVars == <<venueOrders, executionLog>>
envVars == <<ordersLog, limitsFile, wiring, loop, threads, tally>>
respVars == <<prevResp, lastResp>>
vars == <<memVars, files, venueVars, decisionLog, envVars, respVars, call>>

\* The observer of the loop: how many batches have begun, how many of them
\* returned at line 203 or reached line 236, how many calls of the evaluation
\* callback failed or raised, and the last start or stop that succeeded.
NoTally == [begun |-> 0, empty |-> 0, counted |-> 0, failed |-> 0, lifecycle |-> "new"]
NoFile == [id |-> 0]
NoCall == [op |-> "none"]
NoResp == [op |-> "none"]

\* --------------------------------------------------------- bounded inputs
StatusInputs == {"pending_approval", "approved", "executed"}
ConfidenceInputs == {60, 74, 75}
RRInputs == {199, 200, 250}
VolumeInputs == {0, 10}
RiskPctInputs == {<<"dec", 0>>, <<"dec", 1000>>, <<"dec", 5000>>, <<"dec", 5001>>,
                  <<"text", "abc">>}
DirectionInputs == {"long", "short"}

IdeaInputs ==
    [id : {1}, symbol : {"EURUSD"}, direction : {"long"}, status : StatusInputs,
     confidence : ConfidenceInputs, rr_ratio : RRInputs, volume : VolumeInputs,
     riskPct : RiskPctInputs, action : {"open_or_scale"},
     entry_price : {110000}, stop_loss : {109500}, take_profit : {111000}]

LimitInputs == {<<"raises">>, <<"absent">>, <<"dec", 0>>, <<"dec", 50000>>,
                <<"text", "abc">>}

OrderRow(today, code, vol) == [today |-> today, result_code |-> code, volume |-> vol]
RowWin25 == OrderRow(TRUE, <<"dec", 10009>>, <<"dec", 2500>>)
RowWin30 == OrderRow(TRUE, <<"dec", 10009>>, <<"dec", 3000>>)
RowOld == OrderRow(FALSE, <<"dec", 10009>>, <<"dec", 9000>>)
RowFail == OrderRow(TRUE, <<"dec", 10004>>, <<"dec", 9000>>)
RowBad == OrderRow(TRUE, <<"text", "abc">>, <<"dec", 2500>>)
OrderLogInputs == {<<>>, <<RowWin25>>, <<RowWin25, RowWin25>>, <<RowWin25, RowWin30>>,
                   <<RowOld, RowFail, RowWin25>>, <<RowWin30, RowWin30, RowBad>>}

SymbolInfo(lo, hi, step) == <<"info", [volume_min |-> lo, volume_max |-> hi, volume_step |-> step]>>
SymbolInputs == {SymbolInfo(1, 10000, 1), SymbolInfo(20, 100, 20), <<"none">>, <<"raises">>}
VenueInputs == {<<"accepted", 12345>>, <<"rejected", "margin">>, <<"raises">>}
\* What get_symbol_info answers a request of the control surface.
SurfaceSymbolInputs == {SymbolInfo(1, 10000, 1), <<"none">>, <<"raises">>}
SurfaceSizingInputs == {SymbolInfo(1, 10000, 1), <<"none">>}

\* ------------------------------------- the executor called directly (SpecExec)
InitExec ==
    /\ aiEngine = FALSE /\ executorMade = FALSE /\ settingsEnabled = TRUE
    /\ enabledSymbols = {} /\ activeIdeas = <<>> /\ nextId = 1
    /\ files = [f \in 1..MaxFiles |-> NoFile]
    /\ venueOrders = <<>> /\ executionLog = <<>> /\ decisionLog = <<>>
    /\ ordersLog \in OrderLogInputs
    /\ loop = NewLoop /\ threads = NoThreads /\ tally = NoTally
    /\ limitsFile \in LimitInputs
    /\ wiring = "direct"
    /\ prevResp = NoResp /\ lastResp = NoResp
    /\ call = NoCall

\* await executor.validate_execution_safety(idea, balance)
DirectValidate ==
    /\ call = NoCall
    /\ \E idea \in IdeaInputs, sym \in SymbolInputs :
         call' = [op |-> "validate", idea |-> idea, sym |-> sym,
                  validation |-> validate_execution_safety(idea, limitsFile, ordersLog, sym)]
    /\ UNCHANGED <<memVars, files, venueVars, decisionLog, envVars, respVars>>

\* await executor.execute_trade_idea(idea, balance)
DirectExecute ==
    /\ call = NoCall
    /\ \E idea \in IdeaInputs, symV \in SymbolInputs, symS \in SymbolInputs,
          venue \in VenueInputs, writable \in BOOLEAN :
         LET r == execute_trade_idea(idea, limitsFile, ordersLog, symV, symS, venue)
         IN  /\ call' = [op |-> "execute", idea |-> idea, sym |-> symV,
                         validation |-> validate_execution_safety(idea, limitsFile, ordersLog, symV),
                         result |-> [success |-> r.success, order_id |-> r.order_id,
                                     error |-> r.error[1]]]
             /\ venueOrders' = venueOrders \o r.placed
             /\ executionLog' = log_execution(executionLog, r.row, writable)
    /\ UNCHANGED <<memVars, files, decisionLog, envVars, respVars>>

NextExec == DirectValidate \/ DirectExecute

SpecExec == InitExec /\ [][NextExec]_vars

\* ------------------------------- the decision chain, stage by stage (SpecChain)
\* Each stage is a pure function: the initial state holds the arguments of one
\* call, the step applies the function to them.
ConfidenceRange == 0..100
CapInputs == {1000, 2500, 3000, 4000, 5000}
ScheduleArgs ==
    [op : {"args"}, fn : {"schedule_action"}, confidence : ConfidenceRange,
     min_rr_ok : BOOLEAN, risk_cap : CapInputs]
FlagInputs == [entry : BOOLEAN, exit : BOOLEAN, strong : BOOLEAN, weak : BOOLEAN]
PenaltyInputs == {0 - 40, 0 - 20, 0, 45}
ScoreArgs ==
    [op : {"args"}, fn : {"confidence_score", "get_score_breakdown"}, flags : FlagInputs,
     align_ok : BOOLEAN, news_penalty : PenaltyInputs]
FactNames == {"ema_fast_gt_slow", "rsi_lt_30"}
Categories == {"entry", "exit", "strong", "weak"}
ChainFacts == UNION {[D -> BOOLEAN] : D \in SUBSET FactNames}
ChainConditions == UNION {[D -> SUBSET FactNames] : D \in SUBSET Categories}
ConditionArgs ==
    [op : {"args"}, fn : {"evaluate_conditions"}, facts : ChainFacts,
     conditions : ChainConditions]

\* A SymbolProfile as SymbolProfile.__init__ lays it out (rr_target in
\* hundredths, atr_multiplier in tenths), and the calculator's other arguments.
SymbolProfileInputs ==
    [best_sessions : {{"London"}}, best_timeframes : {{"H1"}}, max_risk_pct : {3000},
     rr_target : {150, 200, 300}, atr_multiplier : {10, 15, 20}]
AtrInputs == {<<"none">>, <<"num", 0>>, <<"num", 150>>, <<"num", 333>>}
SlTpArgs ==
    [op : {"args"}, fn : {"calculate_sl_tp"}, entry_price : {110000, 195037},
     direction : {"long", "short"}, atr : AtrInputs, profile : SymbolProfileInputs]

InitChain ==
    /\ aiEngine = FALSE /\ executorMade = FALSE /\ settingsEnabled = TRUE
    /\ enabledSymbols = {} /\ activeIdeas = <<>> /\ nextId = 1
    /\ files = [f \in 1..MaxFiles |-> NoFile]
    /\ venueOrders = <<>> /\ executionLog = <<>> /\ decisionLog = <<>>
    /\ ordersLog = <<>>
    /\ loop = NewLoop /\ threads = NoThreads /\ tally = NoTally
    /\ limitsFile = <<"absent">>
    /\ wiring = "direct"
    /\ prevResp = NoResp /\ lastResp = NoResp
    /\ call \in ScheduleArgs \cup ScoreArgs \cup ConditionArgs \cup SlTpArgs

\* schedule_action(confidence, min_rr_ok, risk_cap_pct)
ScheduleAction ==
    /\ call.op = "args" /\ call.fn = "schedule_action"
    /\ call' = [op |-> "schedule_action", confidence |-> call.confidence,
                min_rr_ok |-> call.min_rr_ok, risk_cap |-> call.risk_cap,
                plan |-> schedule_action(call.confidence, call.min_rr_ok, call.risk_cap)]
    /\ UNCHANGED <<memVars, files, venueVars, decisionLog, envVars, respVars>>

\* confidence_score(emnr_flags, align_ok, news_penalty)
ConfidenceScore ==
    /\ call.op = "args" /\ call.fn = "confidence_score"
    /\ call' = [op |-> "confidence_score", flags |-> call.flags, align_ok |-> call.align_ok,
                news_penalty |-> call.news_penalty,
                score |-> confidence_score(call.flags, call.align_ok, call.news_penalty)]
    /\ UNCHANGED <<memVars, files, venueVars, decisionLog, envVars, respVars>>

\* get_score_breakdown(emnr_flags, align_ok, news_penalty)
ScoreBreakdown ==
    /\ call.op = "args" /\ call.fn = "get_score_breakdown"
    /\ call' = [op |-> "get_score_breakdown", flags |-> call.flags,
                align_ok |-> call.align_ok, news_penalty |-> call.news_penalty,
                breakdown |-> get_score_breakdown(call.flags, call.align_ok,
                                                  call.news_penalty)]
    /\ UNCHANGED <<memVars, files, venueVars, decisionLog, envVars, respVars>>

\* evaluate_conditions(facts, conditions)
EvaluateConditions ==
    /\ call.op = "args" /\ call.fn = "evaluate_conditions"
    /\ call' = [op |-> "evaluate_conditions", facts |-> call.facts,
                conditions |-> call.conditions,
                flags |-> evaluate_conditions(call.facts, call.conditions)]
    /\ UNCHANGED <<memVars, files, venueVars, decisionLog, envVars, respVars>>

\* AIEngine._calculate_sl_tp(entry_price, direction, indicators, profile, rules)
CalculateSlTp ==
    /\ call.op = "args" /\ call.fn = "calculate_sl_tp"
    /\ call' = [op |-> "calculate_sl_tp", entry_price |-> call.entry_price,
                direction |-> call.direction, atr |-> call.atr, profile |-> call.profile,
                levels |-> calculate_sl_tp(call.entry_price, call.direction, call.atr,
                                           call.profile)]
    /\ UNCHANGED <<memVars, files, venueVars, decisionLog, envVars, respVars>>

NextChain ==
    \/ CalculateSlTp
    \/ ScheduleAction
    \/ ConfidenceScore
    \/ ScoreBreakdown
    \/ EvaluateConditions

SpecChain == InitChain /\ [][NextChain]_vars

\* ----------------------------------------------- position sizing (SpecSizing)
\* calculate_position_size on a suggested volume and the venue's constraints,
\* then on the volume it returned.  Volumes are hundredths of a lot.
SuggestedVolumes == 0..30
ConstraintInputs ==
    {SymbolInfo(lo, hi, step) : lo \in {1, 10, 15}, hi \in {15, 20, 25}, step \in {1, 10}}
        \cup {<<"none">>}
SizingIdea(volume) ==
    [id |-> 1, symbol |-> "EURUSD", direction |-> "long", status |-> "approved",
     confidence |-> 75, rr_ratio |-> 200, volume |-> volume, riskPct |-> <<"dec", 1000>>,
     action |-> "open_or_scale", entry_price |-> 110000, stop_loss |-> 109500,
     take_profit |-> 111000]
SizingArgs == [op : {"args"}, suggested : SuggestedVolumes, sym : ConstraintInputs]

InitSizing ==
    /\ aiEngine = FALSE /\ executorMade = FALSE /\ settingsEnabled = TRUE
    /\ enabledSymbols = {} /\ activeIdeas = <<>> /\ nextId = 1
    /\ files = [f \in 1..MaxFiles |-> NoFile]
    /\ venueOrders = <<>> /\ executionLog = <<>> /\ decisionLog = <<>>
    /\ ordersLog = <<>>
    /\ loop = NewLoop /\ threads = NoThreads /\ tally = NoTally
    /\ limitsFile = <<"absent">>
    /\ wiring = "direct"
    /\ prevResp = NoResp /\ lastResp = NoResp
    /\ call \in SizingArgs

\* executor.calculate_position_size(idea, balance)
SizePosition ==
    /\ call.op = "args"
    /\ call' = [op |-> "sized", suggested |-> call.suggested, sym |-> call.sym,
                sized |-> calculate_position_size(SizingIdea(call.suggested), call.sym)]
    /\ UNCHANGED <<memVars, files, venueVars, decisionLog, envVars, respVars>>

\* ... and again, of the idea carrying the volume just returned
SizeAgain ==
    /\ call.op = "sized"
    /\ call' = [op |-> "resized", suggested |-> call.suggested, sym |-> call.sym,
                first |-> call.sized,
                sized |-> calculate_position_size(SizingIdea(call.sized), call.sym)]
    /\ UNCHANGED <<memVars, files, venueVars, decisionLog, envVars, respVars>>

NextSizing == SizePosition \/ SizeAgain

SpecSizing == InitSizing /\ [][NextSizing]_vars

\* ------------------------------------------- the two audit logs (SpecLogs)
\* Every operation of the program that writes logs/ai_executions.csv or a
\* *_decisions.csv file: the executor's _log_execution (through
\* execute_trade_idea), log_decision and clear_old_decisions of ai_logger.
DecisionInputs ==
    {DecisionRow("EURUSD", c, "observe", t) : c \in {40, 55}, t \in {"recent", "old", "invalid"}}
LogIdeaInputs ==
    [id : {1}, symbol : {"EURUSD"}, direction : {"long"}, status : {"approved"},
     confidence : {74, 75}, rr_ratio : {200}, volume : {10}, riskPct : {<<"dec", 1000>>},
     action : {"open_or_scale"}, entry_price : {110000}, stop_loss : {109500},
     take_profit : {111000}]

InitLogs ==
    /\ aiEngine = FALSE /\ executorMade = FALSE /\ settingsEnabled = TRUE
    /\ enabledSymbols = {} /\ activeIdeas = <<>> /\ nextId = 1
    /\ files = [f \in 1..MaxFiles |-> NoFile]
    /\ venueOrders = <<>> /\ executionLog = <<>> /\ decisionLog = <<>>
    /\ ordersLog = <<>>
    /\ loop = NewLoop /\ threads = NoThreads /\ tally = NoTally
    /\ limitsFile = <<"absent">>
    /\ wiring = "direct"
    /\ prevResp = NoResp /\ lastResp = NoResp
    /\ call = NoCall

\* log_decision(Path(...), decision)
LogDecision ==
    /\ Len(decisionLog) < MaxLogRows
    /\ \E row \in DecisionInputs, writable \in BOOLEAN :
         decisionLog' = log_decision(decisionLog, row, "Path", writable)[3]
    /\ UNCHANGED <<memVars, files, venueVars, envVars, respVars, call>>

\* clear_old_decisions(Path(...))
ClearOldDecisions ==
    /\ \E io_ok \in BOOLEAN : decisionLog' = clear_old_decisions(decisionLog, io_ok)
    /\ UNCHANGED <<memVars, files, venueVars, envVars, respVars, call>>

\* Faulty variant: the executor records the order in logs/orders.csv, as
\* post_order does.
LoggedExecute_writes_orders ==
    /\ Len(executionLog) < MaxLogRows
    /\ \E idea \in LogIdeaInputs, sym \in SurfaceSizingInputs, venue \in VenueInputs,
          writable \in BOOLEAN :
         LET r == execute_trade_idea(idea, limitsFile, ordersLog, sym, sym, venue)
         IN  /\ Len(venueOrders) + Len(r.placed) <= MaxVenueCalls
             /\ venueOrders' = venueOrders \o r.placed
             /\ executionLog' = log_execution(executionLog, r.row, writable)
             /\ ordersLog' = IF r.success
                              THEN Append(ordersLog, OrderRow(TRUE, <<"dec", 10009>>,
                                                              <<"dec", 2500>>))
                              ELSE ordersLog
    /\ UNCHANGED <<memVars, files, decisionLog, limitsFile, wiring, loop, threads, tally,
                   respVars, call>>

\* await executor.execute_trade_idea(idea, balance), any number of times
LoggedExecute ==
    /\ Len(executionLog) < MaxLogRows
    /\ \E idea \in LogIdeaInputs, sym \in SurfaceSizingInputs, venue \in VenueInputs,
          writable \in BOOLEAN :
         LET r == execute_trade_idea(idea, limitsFile, ordersLog, sym, sym, venue)
         IN  /\ Len(venueOrders) + Len(r.placed) <= MaxVenueCalls
             /\ venueOrders' = venueOrders \o r.placed
             /\ executionLog' = log_execution(executionLog, r.row, writable)
    /\ UNCHANGED <<memVars, files, decisionLog, envVars, respVars, call>>

NextLogs == LogDecision \/ ClearOldDecisions \/ LoggedExecute

SpecLogs == InitLogs /\ [][NextLogs]_vars

\* The executor called any number of times with a daily loss limit set and
\* logs/orders.csv holding the day's orders so far.
PnlLimitInputs == {<<"dec", 50000>>, <<"dec", 25100>>}
PnlOrderInputs == {<<>>, <<RowWin25>>, <<RowWin25, RowWin25>>, <<RowOld, RowFail, RowWin25>>}
InitPnl ==
    /\ aiEngine = FALSE /\ executorMade = FALSE /\ settingsEnabled = TRUE
    /\ enabledSymbols = {} /\ activeIdeas = <<>> /\ nextId = 1
    /\ files = [f \in 1..MaxFiles |-> NoFile]
    /\ venueOrders = <<>> /\ executionLog = <<>> /\ decisionLog = <<>>
    /\ ordersLog \in PnlOrderInputs
    /\ loop = NewLoop /\ threads = NoThreads /\ tally = NoTally
    /\ limitsFile \in PnlLimitInputs
    /\ wiring = "direct"
    /\ prevResp = NoResp /\ lastResp = NoResp
    /\ call = NoCall
SpecPnl == InitPnl /\ [][LoggedExecute]_vars

\* --------------------------------------- the control surface (ai_routes.py)
\* The first index of activeIdeas holding identity id, 0 when there is none:
\* next((i for i in _active_trade_ideas if i.id == idea_id), None)
RECURSIVE FindFrom(_, _, _)
FindFrom(ideas, id, k) ==
    IF k > Len(ideas) THEN 0
    ELSE IF ideas[k].id = id THEN k
    ELSE FindFrom(ideas, id, k + 1)
FindIdea(id) == FindFrom(activeIdeas, id, 1)

IdRange == 1..MaxIdeas

\* One response of a lifecycle request: the HTTP status code, what the detail
\* says, the status it names, and the idea's status before and after.
Resp(op, store, id, code, detail, named, before, after, changed, order_id, venue) ==
    [op |-> op, store |-> store, id |-> id, code |-> code, detail |-> detail,
     named |-> named, before |-> before, after |-> after, changed |-> changed,
     order_id |-> order_id, venue |-> venue]
\* ... of an execute request that reached the executor, with the symbol
\* information its validation read from the venue adapter.
ExecResp(r, sym) ==
    [op |-> r.op, store |-> r.store, id |-> r.id, code |-> r.code, detail |-> r.detail,
     named |-> r.named, before |-> r.before, after |-> r.after, changed |-> r.changed,
     order_id |-> r.order_id, venue |-> r.venue, sym |-> sym]
Respond(r) == /\ prevResp' = lastResp
              /\ lastResp' = r

\* get_ai_engine(): creates the engine once; always returns it.
\* get_executor(): creates the executor once, and returns _ai_engine.
get_executor == IF aiEngine THEN "AIEngine" ELSE "None"

\* The object a route receives as its executor argument.
ExecutorArgument ==
    IF wiring = "get_executor" THEN get_executor ELSE "TradeIdeaExecutor"
ExecutorMadeAfter == IF wiring = "get_executor" THEN TRUE ELSE executorMade

\* POST /api/ai/evaluate/{symbol}
\* The objects load_rules and load_profile return: EMNRRules.__init__ keeps
\* sessions, indicators, conditions, direction and min_rr (no strategy);
\* SymbolProfile.__init__ keeps best_sessions, best_timeframes, rr_target,
\* max_risk_pct and atr_multiplier (no bestSessions, bestTimeframes, style or
\* management).
RuleInputs ==
    {<<"absent">>,
     <<"loaded", [sessions |-> {"London"}, direction |-> "long", min_rr |-> 200,
                  conditions |-> [entry |-> {"ema_fast_gt_slow"}, exit |-> {},
                                  strong |-> {"macd_hist_gt_0"}, weak |-> {"rsi_lt_30"}]]>>}
ProfileInputs ==
    {<<"absent">>,
     <<"loaded", [best_sessions |-> {"London"}, best_timeframes |-> {"H1"},
                  max_risk_pct |-> 3000, rr_target |-> 200, atr_multiplier |-> 15]>>}
SessionInputs == {"London", "Sydney"}
FactInputs ==
    {[n \in {"ema_fast_gt_slow", "macd_hist_gt_0"} |-> TRUE],
     [n \in {"ema_fast_gt_slow", "macd_hist_gt_0", "rsi_lt_30"} |-> n # "macd_hist_gt_0"]}
IndicatorInputs == {<<"none">>} \cup {<<"ok", <<"num", 150>>, f>> : f \in FactInputs}
BarInputs == {49, 50}
PriceInputs == {110000}
EvalSymbols == {"EURUSD"}
SurfaceIndicatorInputs ==
    {<<"none">>,
     <<"ok", <<"num", 150>>, [n \in {"ema_fast_gt_slow", "macd_hist_gt_0"} |-> TRUE]>>}

EvaluateSymbol ==
    \E symbol \in EvalSymbols, force \in BOOLEAN, rules \in RuleInputs,
       profile \in ProfileInputs, bars \in BarInputs, price \in PriceInputs,
       indicators \in SurfaceIndicatorInputs, session \in SessionInputs :
        LET r == evaluate(nextId, symbol, force, settingsEnabled, rules, profile,
                          bars, price, indicators, session)
        IN  /\ aiEngine' = TRUE
            /\ IF r.idea # NoIdea
               THEN /\ nextId <= MaxIdeas
                    /\ activeIdeas' = Append(activeIdeas, r.idea)
                    /\ nextId' = nextId + 1
               ELSE UNCHANGED <<activeIdeas, nextId>>
            /\ decisionLog' = IF r.logged THEN decisionLog \o r.row ELSE decisionLog
            /\ call' = [op |-> "evaluate", force |-> force, enabled |-> settingsEnabled,
                        result |-> r]
            /\ UNCHANGED <<executorMade, settingsEnabled, enabledSymbols, files,
                           venueVars, envVars, respVars>>

\* POST /api/ai/enable/{symbol}
EnableSymbol ==
    \E symbol \in Symbols :
        /\ aiEngine' = TRUE
        /\ enabledSymbols' = enabledSymbols \cup {symbol}
        /\ UNCHANGED <<executorMade, settingsEnabled, activeIdeas, nextId, files,
                       venueVars, decisionLog, envVars, respVars, call>>

\* POST /api/ai/disable/{symbol}: 404 when the symbol is not enabled.
DisableSymbol ==
    \E symbol \in Symbols :
        /\ enabledSymbols' = enabledSymbols \ {symbol}
        /\ UNCHANGED <<aiEngine, executorMade, settingsEnabled, activeIdeas, nextId,
                       files, venueVars, decisionLog, envVars, respVars, call>>

\* Faulty variant: the kill switch leaves _active_trade_ideas as it is.
KillSwitch_keeps_ideas ==
    /\ aiEngine' = TRUE
    /\ settingsEnabled' = FALSE
    /\ enabledSymbols' = {}
    /\ UNCHANGED <<activeIdeas, executorMade, nextId, files, venueVars, decisionLog,
                   envVars, respVars, call>>

\* POST /api/ai/kill-switch
KillSwitch ==
    /\ aiEngine' = TRUE
    /\ settingsEnabled' = FALSE
    /\ enabledSymbols' = {}
    /\ activeIdeas' = <<>>
    /\ UNCHANGED <<executorMade, nextId, files, venueVars, decisionLog, envVars,
                   respVars, call>>

\* POST /api/ai/trade-ideas/{idea_id}/approve
ApproveIdea ==
    \E id \in IdRange :
        LET k == FindIdea(id)
        IN  /\ executorMade' = ExecutorMadeAfter
            /\ IF k = 0
               THEN /\ Respond(Resp("approve", "memory", id, 404, "not_found", "",
                                    "none", "none", FALSE, 0, "none"))
                    /\ UNCHANGED activeIdeas
               ELSE IF activeIdeas[k].status # "pending_approval"
               THEN /\ Respond(Resp("approve", "memory", id, 400, "invalid_status",
                                    activeIdeas[k].status, activeIdeas[k].status,
                                    activeIdeas[k].status, FALSE, 0, "none"))
                    /\ UNCHANGED activeIdeas
               ELSE /\ activeIdeas' = [activeIdeas EXCEPT ![k].status = "approved"]
                    /\ Respond(Resp("approve", "memory", id, 200, "ok", "",
                                    "pending_approval", "approved", TRUE, 0, "none"))
            /\ UNCHANGED <<aiEngine, settingsEnabled, enabledSymbols, nextId, files,
                           venueVars, decisionLog, envVars, call>>

\* POST /api/ai/trade-ideas/{idea_id}/reject
RejectIdea ==
    \E id \in IdRange :
        LET k == FindIdea(id)
        IN  /\ IF k = 0
               THEN /\ Respond(Resp("reject", "memory", id, 404, "not_found", "",
                                    "none", "none", FALSE, 0, "none"))
                    /\ UNCHANGED activeIdeas
               ELSE IF activeIdeas[k].status \notin {"pending_approval", "approved"}
               THEN /\ Respond(Resp("reject", "memory", id, 400, "invalid_status",
                                    activeIdeas[k].status, activeIdeas[k].status,
                                    activeIdeas[k].status, FALSE, 0, "none"))
                    /\ UNCHANGED activeIdeas
               ELSE /\ activeIdeas' = [activeIdeas EXCEPT ![k].status = "rejected"]
                    /\ Respond(Resp("reject", "memory", id, 200, "ok", "",
                                    activeIdeas[k].status, "rejected", TRUE, 0, "none"))
            /\ UNCHANGED <<aiEngine, executorMade, settingsEnabled, enabledSymbols,
                           nextId, files, venueVars, decisionLog, envVars, call>>

\* if result.success: idea.status = "executed"
StatusAfterExecute_always(status, success) == "executed"
StatusAfterExecute(status, success) == IF success THEN "executed" ELSE status


\* POST /api/ai/trade-ideas/{idea_id}/execute.  The account balance lookup
\* falls back to its default on any exception and decides nothing below.  An
\* executor argument without an execute_trade_idea method makes the call throw
\* (AttributeError), which leaves the handler as a 500.
ExecuteIdea ==
    \E id \in IdRange :
        LET k == FindIdea(id)
        IN  /\ executorMade' = ExecutorMadeAfter
            /\ IF k = 0
               THEN /\ Respond(Resp("execute", "memory", id, 404, "not_found", "",
                                    "none", "none", FALSE, 0, "none"))
                    /\ UNCHANGED <<activeIdeas, venueVars>>
               ELSE IF activeIdeas[k].status # "approved"
               THEN /\ Respond(Resp("execute", "memory", id, 400, "invalid_status",
                                    activeIdeas[k].status, activeIdeas[k].status,
                                    activeIdeas[k].status, FALSE, 0, "none"))
                    /\ UNCHANGED <<activeIdeas, venueVars>>
               ELSE IF ExecutorArgument # "TradeIdeaExecutor"
               THEN /\ Respond(Resp("execute", "memory", id, 500, "attribute_error", "",
                                    "approved", "approved", FALSE, 0, "none"))
                    /\ UNCHANGED <<activeIdeas, venueVars>>
               ELSE \E symV \in SurfaceSymbolInputs, symS \in SurfaceSizingInputs,
                       venue \in VenueInputs, writable \in BOOLEAN :
                      LET r == execute_trade_idea(activeIdeas[k], limitsFile, ordersLog,
                                                  symV, symS, venue)
                          outcome == IF r.placed = <<>> THEN "none" ELSE venue[1]
                          after == StatusAfterExecute("approved", r.success)
                      IN  /\ Len(executionLog) < MaxLogRows
                          /\ Len(venueOrders) + Len(r.placed) <= MaxVenueCalls
                          /\ venueOrders' = venueOrders \o r.placed
                          /\ executionLog' = log_execution(executionLog, r.row, writable)
                          /\ activeIdeas' = [activeIdeas EXCEPT ![k].status = after]
                          /\ IF r.success
                             THEN Respond(ExecResp(
                                      Resp("execute", "memory", id, 200, "ok", "",
                                           "approved", after, after # "approved",
                                           r.order_id, outcome), symV))
                             ELSE Respond(ExecResp(
                                      Resp("execute", "memory", id, 500, r.error[1], "",
                                           "approved", after, after # "approved",
                                           0, outcome), symV))
            /\ UNCHANGED <<aiEngine, settingsEnabled, enabledSymbols, nextId, files,
                           decisionLog, envVars, call>>

MemoryOps ==
    \/ EvaluateSymbol
    \/ EnableSymbol
    \/ DisableSymbol
    \/ KillSwitch
    \/ ApproveIdea
    \/ RejectIdea
    \/ ExecuteIdea


\* --------------------------- the approval surface (trade_approval_routes.py)
\* A document of data/trade_ideas: the TradeIdea fields the routes touch, the
\* approval fields and the keys of manual_overrides.
FileIds == 1..MaxFiles
FileDoc(idea, f) ==
    [id |-> f, status |-> idea.status, approval_status |-> "",
     entry_price |-> idea.entry_price, stop_loss |-> idea.stop_loss,
     take_profit |-> idea.take_profit, volume |-> idea.volume,
     rr_ratio |-> idea.rr_ratio,
     overrides |-> {}, approved_at |-> FALSE, rejected_at |-> FALSE,
     cancelled_at |-> FALSE]

\* A request's optional fields, as the dictionary of those that are given.
NoFields == [k \in {} |-> 0]
OverrideInputs ==
    {NoFields,
     [k \in {"take_profit", "volume"} |-> IF k = "volume" THEN 5 ELSE 110500]}
ModifyInputs ==
    {NoFields,
     [k \in {"stop_loss"} |-> 109000],
     [k \in {"stop_loss"} |-> 110000]}
PriceFields == {"entry_price", "stop_loss", "take_profit"}
OverrideFields == PriceFields \cup {"volume"}

\* for key, value in overrides.items(): if key in [...]: trade_idea[key] = value
ApplyFields(doc, given) ==
    [doc EXCEPT
       !.entry_price = IF "entry_price" \in DOMAIN given THEN given["entry_price"] ELSE @,
       !.stop_loss = IF "stop_loss" \in DOMAIN given THEN given["stop_loss"] ELSE @,
       !.take_profit = IF "take_profit" \in DOMAIN given THEN given["take_profit"] ELSE @,
       !.volume = IF "volume" \in DOMAIN given THEN given["volume"] ELSE @]

\* "Recalculate R:R ratio if prices were modified" (modify_trade_idea)
RecalculateRR(doc, given) ==
    IF DOMAIN given \cap PriceFields = {} THEN doc
    ELSE IF doc.entry_price = 0 \/ doc.stop_loss = 0 \/ doc.take_profit = 0 THEN doc
    ELSE IF Abs(doc.entry_price - doc.stop_loss) > 0
    THEN [doc EXCEPT !.rr_ratio =
             RoundHalfEven(Abs(doc.take_profit - doc.entry_price) * 100,
                           Abs(doc.entry_price - doc.stop_loss))]
    ELSE doc

\* backend/tasks/ai_tasks.py: evaluate_all_strategies stores each idea the
\* factory returns as a new document (its own engine, settings from disk).
StoreTradeIdea ==
    \E f \in FileIds, symbol \in EvalSymbols, enabled \in BOOLEAN, rules \in RuleInputs,
       profile \in ProfileInputs, bars \in BarInputs, price \in PriceInputs,
       indicators \in SurfaceIndicatorInputs, session \in SessionInputs :
        LET r == evaluate(f, symbol, FALSE, enabled, rules, profile, bars, price,
                          indicators, session)
        IN  /\ IF r.idea # NoIdea
               THEN /\ files[f] = NoFile
                    /\ \A g \in FileIds : g < f => files[g] # NoFile
                    /\ files' = [files EXCEPT ![f] = FileDoc(r.idea, f)]
               ELSE UNCHANGED files
            /\ decisionLog' = IF r.logged THEN decisionLog \o r.row ELSE decisionLog
            /\ UNCHANGED <<memVars, venueVars, envVars, respVars, call>>

FileNotFound(op, f) ==
    /\ Respond(Resp(op, "file", f, 404, "not_found", "", "none", "none", FALSE, 0, "none"))
    /\ UNCHANGED files

FileSaved(op, f, doc) ==
    /\ files' = [files EXCEPT ![f] = doc]
    /\ Respond(Resp(op, "file", f, 200, "ok", "", files[f].status, doc.status,
                    doc # files[f], 0, "none"))

\* POST /api/trade-approval/approve
FileApprove ==
    \E f \in FileIds, given \in OverrideInputs :
        /\ IF files[f] = NoFile THEN FileNotFound("approve", f)
           ELSE LET d1 == [files[f] EXCEPT !.approval_status = "approved",
                                           !.approved_at = TRUE]
                    d2 == IF given # NoFields
                          THEN [ApplyFields(d1, given) EXCEPT !.overrides = DOMAIN given]
                          ELSE d1
                    d3 == IF d2.status = "pending_approval"
                          THEN [d2 EXCEPT !.status = "approved"] ELSE d2
                IN  FileSaved("approve", f, d3)
        /\ UNCHANGED <<memVars, venueVars, decisionLog, envVars, call>>

\* POST /api/trade-approval/reject
FileReject ==
    \E f \in FileIds :
        /\ IF files[f] = NoFile THEN FileNotFound("reject", f)
           ELSE FileSaved("reject", f,
                    [files[f] EXCEPT !.approval_status = "rejected",
                                     !.rejected_at = TRUE, !.status = "rejected"])
        /\ UNCHANGED <<memVars, venueVars, decisionLog, envVars, call>>

\* PATCH /api/trade-approval/modify
FileModify ==
    \E f \in FileIds, given \in ModifyInputs :
        /\ IF files[f] = NoFile THEN FileNotFound("modify", f)
           ELSE LET d1 == ApplyFields(files[f], given)
                    d2 == [d1 EXCEPT !.overrides = @ \cup DOMAIN given \cup {"modified_at"}]
                IN  FileSaved("modify", f, RecalculateRR(d2, given))
        /\ UNCHANGED <<memVars, venueVars, decisionLog, envVars, call>>

\* DELETE /api/trade-approval/{trade_idea_id}
FileCancel ==
    \E f \in FileIds :
        /\ IF files[f] = NoFile THEN FileNotFound("cancel", f)
           ELSE FileSaved("cancel", f,
                    [files[f] EXCEPT !.status = "cancelled", !.cancelled_at = TRUE])
        /\ UNCHANGED <<memVars, venueVars, decisionLog, envVars, call>>

FileOps ==
    \/ StoreTradeIdea
    \/ FileApprove
    \/ FileReject
    \/ FileModify
    \/ FileCancel

\* ------------------------------------------------------- specifications
SurfaceLimitInputs == {<<"absent">>, <<"dec", 50000>>}
SurfaceOrderInputs == {<<>>, <<RowWin25, RowWin25>>}

\* The running service: both stores empty, the executor dependency resolved
\* by get_executor.
Init ==
    /\ aiEngine = FALSE /\ executorMade = FALSE /\ settingsEnabled = TRUE
    /\ enabledSymbols = {} /\ activeIdeas = <<>> /\ nextId = 1
    /\ files = [f \in FileIds |-> NoFile]
    /\ venueOrders = <<>> /\ executionLog = <<>> /\ decisionLog = <<>>
    /\ ordersLog = <<>>
    /\ loop = NewLoop /\ threads = NoThreads /\ tally = NoTally
    /\ limitsFile \in SurfaceLimitInputs
    /\ wiring = "get_executor"
    /\ prevResp = NoResp /\ lastResp = NoResp
    /\ call = NoCall

\* ... its factory: engine.evaluate(symbol, "H1", force) on every state of the
\* stores it reads, the kill switch being what turns settings["enabled"] off.
AIEvaluate ==
    \E symbol \in EvalSymbols, force \in BOOLEAN, rules \in RuleInputs,
       profile \in ProfileInputs, bars \in BarInputs, price \in PriceInputs,
       indicators \in IndicatorInputs, session \in SessionInputs :
        LET r == evaluate(nextId, symbol, force, settingsEnabled, rules, profile,
                          bars, price, indicators, session)
        IN  /\ Len(decisionLog) + Len(r.row) <= MaxLogRows
            /\ call' = [op |-> "evaluate", force |-> force, enabled |-> settingsEnabled,
                        rules |-> rules, profile |-> profile, bars |-> bars,
                        indicators |-> indicators, session |-> session,
                        log_before |-> decisionLog, result |-> r]
            /\ decisionLog' = IF r.logged THEN decisionLog \o r.row ELSE decisionLog
            /\ aiEngine' = TRUE
            /\ UNCHANGED <<executorMade, settingsEnabled, enabledSymbols, activeIdeas,
                           nextId, files, venueVars, envVars, respVars>>

EngineOps ==
    \/ AIEvaluate
    \/ KillSwitch

SpecEngine == Init /\ [][EngineOps]_vars

\* The factory, as coded, hands no TradeIdea to either store: evaluate always
\* ends in its except branch.  What the operations do to a stored idea is
\* therefore checked from a store that holds one: a TradeIdea in
\* _active_trade_ideas of any field values the model admits, or a document of
\* data/trade_ideas as _store_trade_idea lays it out.
SeedInputs ==
    [id : {1}, symbol : {"EURUSD"}, direction : {"long"},
     status : {"pending_approval", "approved"}, confidence : {74, 75},
     rr_ratio : {200}, volume : {10}, riskPct : {<<"dec", 1000>>, <<"dec", 5001>>},
     action : {"open_or_scale"}, entry_price : {110000}, stop_loss : {109500},
     take_profit : {111000}]

InitSeeded ==
    /\ aiEngine = FALSE /\ executorMade = FALSE /\ settingsEnabled = TRUE
    /\ enabledSymbols = {} /\ nextId = 2
    /\ \E idea \in SeedInputs : activeIdeas = <<idea>>
    /\ files = [f \in FileIds |-> NoFile]
    /\ venueOrders = <<>> /\ executionLog = <<>> /\ decisionLog = <<>>
    /\ ordersLog \in SurfaceOrderInputs
    /\ loop = NewLoop /\ threads = NoThreads /\ tally = NoTally
    /\ limitsFile \in SurfaceLimitInputs
    /\ prevResp = NoResp /\ lastResp = NoResp
    /\ call = NoCall

\* ... as the service resolves the executor dependency.
InitSurface == InitSeeded /\ wiring = "get_executor"
LifecycleOps ==
    \/ ApproveIdea
    \/ RejectIdea
    \/ ExecuteIdea
SpecSurface == InitSurface /\ [][LifecycleOps]_vars

\* ... with the route handed a TradeIdeaExecutor, as its signature declares.
InitRoute == InitSeeded /\ wiring = "override"
SpecRoute == InitRoute /\ [][LifecycleOps]_vars

\* ... every operation of the control surface.
SpecControl == InitSurface /\ [][MemoryOps]_vars

\* ... the kill switch among evaluation and execution, a symbol enabled and
\* the store holding an approved idea that passes the executor's checks.
KillOps ==
    \/ EvaluateSymbol
    \/ KillSwitch
    \/ ExecuteIdea
InitKill ==
    /\ aiEngine = TRUE /\ executorMade = FALSE /\ settingsEnabled = TRUE
    /\ enabledSymbols = {"EURUSD"} /\ nextId = 2
    /\ \E idea \in SeedInputs :
          /\ idea.status = "approved" /\ idea.confidence = MinConfidence
          /\ idea.riskPct = <<"dec", 1000>>
          /\ activeIdeas = <<idea>>
    /\ files = [f \in FileIds |-> NoFile]
    /\ venueOrders = <<>> /\ executionLog = <<>> /\ decisionLog = <<>>
    /\ ordersLog = <<>>
    /\ loop = NewLoop /\ threads = NoThreads /\ tally = NoTally
    /\ limitsFile = <<"absent">> /\ wiring = "override"
    /\ prevResp = NoResp /\ lastResp = NoResp
    /\ call = NoCall
SpecKill == InitKill /\ [][KillOps]_vars

\* ... the store holding an idea as the factory builds it (engine.py:148-190):
\* the confidence scored with the factory's news penalty, the plan scheduled
\* from it, a reward-to-risk ratio that meets the minimum.
FactoryIdeas ==
    {LET confidence == confidence_score(flags, align_ok, FactoryNewsPenalty)
         plan == schedule_action(confidence, min_rr_ok, risk_cap)
     IN  [id |-> 1, symbol |-> "EURUSD", direction |-> "long",
          status |-> "pending_approval", confidence |-> confidence, rr_ratio |-> 200,
          volume |-> FactoryVolume, riskPct |-> plan.riskPct, action |-> plan.action,
          entry_price |-> 110000, stop_loss |-> 109500, take_profit |-> 111000] :
     flags \in FlagInputs, align_ok \in BOOLEAN, min_rr_ok \in BOOLEAN,
     risk_cap \in {1000, 3000}}
InitFactoryIdea ==
    /\ aiEngine = FALSE /\ executorMade = FALSE /\ settingsEnabled = TRUE
    /\ enabledSymbols = {} /\ nextId = 2
    /\ \E idea \in FactoryIdeas : activeIdeas = <<idea>>
    /\ files = [f \in FileIds |-> NoFile]
    /\ venueOrders = <<>> /\ executionLog = <<>> /\ decisionLog = <<>>
    /\ ordersLog = <<>>
    /\ loop = NewLoop /\ threads = NoThreads /\ tally = NoTally
    /\ limitsFile = <<"absent">> /\ wiring = "override"
    /\ prevResp = NoResp /\ lastResp = NoResp
    /\ call = NoCall
SpecFactoryIdea == InitFactoryIdea /\ [][LifecycleOps]_vars

\* The approval surface with one document in data/trade_ideas.
SeedFileInputs ==
    [id : {1}, status : {"pending_approval"}, rr_ratio : {200}, volume : {10},
     entry_price : {110000}, stop_loss : {109500}, take_profit : {111000}]
InitApproval ==
    /\ aiEngine = FALSE /\ executorMade = FALSE /\ settingsEnabled = TRUE
    /\ enabledSymbols = {} /\ activeIdeas = <<>> /\ nextId = 1
    /\ \E idea \in SeedFileInputs : files = [f \in FileIds |-> FileDoc(idea, f)]
    /\ venueOrders = <<>> /\ executionLog = <<>> /\ decisionLog = <<>>
    /\ ordersLog = <<>>
    /\ loop = NewLoop /\ threads = NoThreads /\ tally = NoTally
    /\ limitsFile \in SurfaceLimitInputs
    /\ wiring = "get_executor"
    /\ prevResp = NoResp /\ lastResp = NoResp
    /\ call = NoCall
SpecApproval == InitApproval /\ [][FileOps]_vars


\* ------------------------------------------- the autonomy loop (SpecLoop)
MaxBatches == 2
IntervalInputs == {15, 30}
\* What enabled_symbols_callback answers: the keys of the registry, in order.
RegistryInputs == {<<>>, <<"EURUSD", "GBPUSD">>}
\* What evaluation_callback does: success, a result without success, or it raises.
CallbackOutcomes == {"ok", "fail", "raise"}

loopVars == <<loop, threads, tally>>
LoopFrame ==
    UNCHANGED <<memVars, files, venueVars, decisionLog, ordersLog, limitsFile, wiring,
                respVars>>

InitLoop ==
    /\ aiEngine = "engine" /\ executorMade = FALSE /\ settingsEnabled = TRUE
    /\ enabledSymbols = {} /\ activeIdeas = <<>> /\ nextId = 1
    /\ files = [i \in FileIds |-> NoFile]
    /\ venueOrders = <<>> /\ executionLog = <<>> /\ decisionLog = <<>>
    /\ ordersLog = <<>> /\ limitsFile = <<"missing">> /\ wiring = "get_executor"
    /\ prevResp = NoResp /\ lastResp = NoResp /\ call = NoCall
    /\ loop = NewLoop /\ threads = NoThreads /\ tally = NoTally

\* A call of start(interval_minutes) from a controlling thread.
Start ==
    \E interval \in IntervalInputs :
        LET r == start(loop, interval)
        IN  /\ loop' = r.loop
            /\ tally' = IF r.success THEN [tally EXCEPT !.lifecycle = "started"] ELSE tally
            /\ call' = [op |-> "start", before |-> loop, after |-> r.loop,
                        success |-> r.success, message |-> r.message,
                        status |-> r.status]
            /\ UNCHANGED threads
            /\ LoopFrame

\* A call of stop() from a controlling thread.
Stop ==
    LET r == stop(loop)
    IN  /\ loop' = r.loop
        /\ tally' = IF r.success THEN [tally EXCEPT !.lifecycle = "stopped"] ELSE tally
        /\ call' = [op |-> "stop", before |-> loop, after |-> r.loop,
                    success |-> r.success, message |-> r.message, status |-> r.status]
        /\ UNCHANGED threads
        /\ LoopFrame

\* _evaluate_all_symbols on thread t, lines 197-210: up to the for.
BeginBatch(t) ==
    /\ threads[t].pc = "idle"
    /\ tally.begun < MaxBatches
    /\ loop' = [loop EXCEPT !.last_evaluation_time = tally.begun + 1]
    /\ \E registry \in RegistryInputs :
          IF registry = <<>>
          THEN /\ threads' = [threads EXCEPT ![t] = IdleThread]
               /\ tally' = [tally EXCEPT !.begun = @ + 1, !.empty = @ + 1]
               /\ call' = [op |-> "return", thread |-> t, batch |-> IdleThread,
                           success |-> TRUE, status |-> get_status(loop)]
          ELSE /\ threads' = [threads EXCEPT ![t] =
                      [IdleThread EXCEPT !.pc = "loop", !.symbols = registry,
                                         !.todo = registry,
                                         !.called = [i \in 1..Len(registry) |-> 0]]]
               /\ tally' = [tally EXCEPT !.begun = @ + 1]
               /\ call' = [op |-> "batch", thread |-> t]
    /\ LoopFrame

\* The scheduler runs the job: it is running, the job is in its store and no
\* instance of the job is in flight.
TimerFire ==
    /\ loop.scheduler.state = "running"
    /\ OtherJobs(loop.scheduler.jobs) # loop.scheduler.jobs
    /\ BeginBatch("timer")

\* A caller enters evaluate_now.
EvaluateNow == \E t \in LoopThreads \ {"timer"} : BeginBatch(t)

\* Faulty variant: a callback that raises ends the for.
EvalSymbol_raise_aborts ==
    \E t \in LoopThreads : \E outcome \in CallbackOutcomes :
        LET th == threads[t]
            k == Len(th.symbols) - Len(th.todo) + 1
            rest == IF outcome = "raise" THEN <<>> ELSE Tail(th.todo)
        IN  /\ th.pc = "loop"
            /\ threads' = [threads EXCEPT ![t] =
                   [th EXCEPT !.todo = rest,
                              !.called = [@ EXCEPT ![k] = @ + 1],
                              !.error_count = IF outcome = "ok" THEN @ ELSE @ + 1,
                              !.pc = IF rest = <<>> THEN "read_eval" ELSE "loop"]]
            /\ tally' = IF outcome = "ok" THEN tally ELSE [tally EXCEPT !.failed = @ + 1]
            /\ call' = [op |-> "step"]
            /\ UNCHANGED loop
            /\ LoopFrame

\* One turn of the for of lines 212-234 on any thread.
EvalSymbol ==
    \E t \in LoopThreads : \E outcome \in CallbackOutcomes :
        LET th == threads[t]
            k == Len(th.symbols) - Len(th.todo) + 1
            rest == Tail(th.todo)
        IN  /\ th.pc = "loop"
            /\ threads' = [threads EXCEPT ![t] =
                   [th EXCEPT !.todo = rest,
                              !.called = [@ EXCEPT ![k] = @ + 1],
                              !.error_count = IF outcome = "ok" THEN @ ELSE @ + 1,
                              !.pc = IF rest = <<>> THEN "read_eval" ELSE "loop"]]
            /\ tally' = IF outcome = "ok" THEN tally ELSE [tally EXCEPT !.failed = @ + 1]
            /\ call' = [op |-> "step"]
            /\ UNCHANGED loop
            /\ LoopFrame

\* Line 236, self.evaluation_count += 1: the load.
ReadEval ==
    \E t \in LoopThreads :
        /\ threads[t].pc = "read_eval"
        /\ threads' = [threads EXCEPT ![t] = [@ EXCEPT !.tmp = loop.evaluation_count,
                                                      !.pc = "write_eval"]]
        /\ tally' = [tally EXCEPT !.counted = @ + 1]
        /\ call' = [op |-> "step"]
        /\ UNCHANGED loop
        /\ LoopFrame

\* Line 236: the store.
WriteEval ==
    \E t \in LoopThreads :
        /\ threads[t].pc = "write_eval"
        /\ loop' = [loop EXCEPT !.evaluation_count = threads[t].tmp + 1]
        /\ threads' = [threads EXCEPT ![t] = [@ EXCEPT !.pc = "read_err"]]
        /\ call' = [op |-> "step"]
        /\ UNCHANGED tally
        /\ LoopFrame

\* Line 237, self.error_count += error_count: the load.
ReadErr ==
    \E t \in LoopThreads :
        /\ threads[t].pc = "read_err"
        /\ threads' = [threads EXCEPT ![t] = [@ EXCEPT !.tmp = loop.error_count,
                                                      !.pc = "write_err"]]
        /\ call' = [op |-> "step"]
        /\ UNCHANGED <<loop, tally>>
        /\ LoopFrame

\* Line 237: the store, and the return of the batch. evaluate_now then returns
\* its success result with the status.
WriteErr ==
    \E t \in LoopThreads :
        LET after == [loop EXCEPT !.error_count = threads[t].tmp + threads[t].error_count]
        IN  /\ threads[t].pc = "write_err"
            /\ loop' = after
            /\ threads' = [threads EXCEPT ![t] = [@ EXCEPT !.pc = "idle"]]
            /\ call' = [op |-> "return", thread |-> t, batch |-> threads[t],
                        success |-> TRUE, status |-> get_status(after)]
            /\ UNCHANGED tally
            /\ LoopFrame

NextLoop ==
    \/ Start \/ Stop \/ TimerFire \/ EvaluateNow
    \/ EvalSymbol \/ ReadEval \/ WriteEval \/ ReadErr \/ WriteErr

SpecLoop == InitLoop /\ [][NextLoop]_vars

\* ---------------------------------------------- the seven checks, as specified
\* (spec 4.7) stated on the inputs, independently of the validator's code.
CheckStatus(idea) == idea.status = "approved"
CheckRR(idea) == idea.rr_ratio >= 200
CheckConfidence(idea) == idea.confidence >= 75
CheckVolume(idea) == idea.volume > 0
LimitKnown == limitsFile[1] \in {"dec", "absent"}
LimitL == IF limitsFile[1] = "dec" THEN limitsFile[2] ELSE 0
PnlKnown == CalculateDailyPnl(ordersLog).ok
PnlToday == CalculateDailyPnl(ordersLog).val
AtOrBeyondLimit == LimitKnown /\ LimitL > 0 /\ PnlKnown /\ PnlToday <= 0 - LimitL
CheckDailyLoss == ~AtOrBeyondLimit
CheckSymbol(sym) == sym[1] = "info"
CheckRiskPct(idea) ==
    /\ idea.riskPct[1] = "dec"
    /\ idea.riskPct[2] > 0
    /\ idea.riskPct[2] <= 5000
CheckPasses(n, idea, sym) ==
    CASE n = 1 -> CheckStatus(idea)
      [] n = 2 -> CheckRR(idea)
      [] n = 3 -> CheckConfidence(idea)
      [] n = 4 -> CheckVolume(idea)
      [] n = 5 -> CheckDailyLoss
      [] n = 6 -> CheckSymbol(sym)
      [] OTHER -> CheckRiskPct(idea)
AllChecksPass(idea, sym) == \A n \in 1..7 : CheckPasses(n, idea, sym)
FailingChecks(idea, sym) ==
    SelectSeq(<<1, 2, 3, 4, 5, 6, 7>>, LAMBDA n : ~CheckPasses(n, idea, sym))
\* the check an error message of the validator belongs to
CheckOf(tag) ==
    CASE tag = "status" -> 1
      [] tag = "rr" -> 2
      [] tag = "confidence" -> 3
      [] tag = "volume" -> 4
      [] tag = "daily_loss" -> 5
      [] tag \in {"symbol_not_found", "symbol_error"} -> 6
      [] OTHER -> 7
ChecksOf(errors) == [k \in 1..Len(errors) |-> CheckOf(errors[k][1])]

\* C1: execute_trade_idea submits an order only when every one of the seven
\* safety checks passes on that attempt: if at least one check fails, no
\* place_order call is made and the result is a failure.
C1_OrderOnlyWhenAllChecksPass ==
    call.op = "execute" /\ ~AllChecksPass(call.idea, call.sym)
        => venueOrders = <<>> /\ ~call.result.success

\* C1 witness: an approved idea failing only the confidence check was executed
\* and no order went out.
C1_Witness ==
    /\ call.op = "execute"
    /\ FailingChecks(call.idea, call.sym) = <<3>>
    /\ venueOrders = <<>>
    /\ ~call.result.success
    /\ Len(executionLog) = 1

\* C7: validate_execution_safety evaluates the seven checks independently:
\* valid is true exactly when no check fails, and the error list holds exactly
\* one entry per failing check, in check order (scenario E: one violation).
C7_AllFailuresCollected ==
    call.op = "validate" =>
        /\ call.validation.valid <=> AllChecksPass(call.idea, call.sym)
        /\ ChecksOf(call.validation.errors) = FailingChecks(call.idea, call.sym)

\* C7 witness: a validation in which several checks fail together (status,
\* confidence and the risk percentage) and scenario E's kind of idea exists.
C7_Witness ==
    /\ call.op = "validate"
    /\ ChecksOf(call.validation.errors) = <<1, 3, 7>>
    /\ ~call.validation.valid

\* C8: with a daily loss limit L > 0 and the day's computed P&L at or below
\* -L, validation reports a daily-loss violation and an execute attempt submits
\* no order; with L = 0 the daily-loss check never reports a violation.
C8_DailyLossLimit ==
    call.op \in {"validate", "execute"} =>
        /\ AtOrBeyondLimit =>
              /\ \E k \in 1..Len(call.validation.errors) :
                     call.validation.errors[k][1] = "daily_loss"
              /\ ~call.validation.valid
              /\ venueOrders = <<>>
        /\ LimitKnown /\ LimitL = 0 =>
              \A k \in 1..Len(call.validation.errors) :
                  call.validation.errors[k][1] # "daily_loss"

\* C8 witness: an execute attempt of an otherwise valid idea while the P&L is
\* exactly at the limit: one violation, no order.
C8_Witness ==
    /\ call.op = "execute"
    /\ LimitL > 0 /\ PnlKnown /\ PnlToday = 0 - LimitL
    /\ FailingChecks(call.idea, call.sym) = <<5>>
    /\ ChecksOf(call.validation.errors) = <<5>>
    /\ venueOrders = <<>>

\* C11: a call of execute_trade_idea leaves exactly one new record in the
\* execution log, whichever way it ends, and the record says how it ended.
C11_OneAuditRecordPerAttempt ==
    call.op = "execute" =>
        /\ Len(executionLog) = 1
        /\ executionLog[1].idea_id = call.idea.id
        /\ executionLog[1].success = call.result.success

\* ------------------------------------------------------ lifecycle claims
\* A response of an execute request that found the idea approved.
PastGate(r) == r.op = "execute" /\ r.store = "memory" /\ r.before = "approved"

\* The stored idea a response is about, as it stood when approved.
StoredIdea(id) == activeIdeas[FindIdea(id)]
IdeaAsApproved(id) == [StoredIdea(id) EXCEPT !.status = "approved"]

\* The failure a response reports is one the specification allows: a safety
\* check failed, or the venue did not accept the order.
Attributable(r) ==
    \/ r.detail = "validation" /\ ~AllChecksPass(IdeaAsApproved(r.id), r.sym)
    \/ r.detail \in {"venue", "exception"} /\ r.venue \in {"rejected", "raises"}

\* The idea a response is about passes every safety check that rests on the
\* idea and the day's records (all but the symbol lookup, which rests on the
\* venue).
IdeaPassesChecks(r) ==
    \A n \in {1, 2, 3, 4, 5, 7} : CheckPasses(n, IdeaAsApproved(r.id), <<"none">>)

InvalidStatus(r) == r.code = 400 /\ r.detail = "invalid_status" /\ r.named = r.before
Succeeded(r) == r.code = 200
OrdersOfPair == (IF prevResp.venue # "none" THEN 1 ELSE 0)
                + (IF lastResp.venue # "none" THEN 1 ELSE 0)

\* C2: of two execute requests on the same approved idea that passes the
\* safety checks and that no venue refusal stops, exactly one succeeds and moves the idea to
\* executed, the other fails with an invalid-status error, and at most one
\* order reaches the venue.
C2_ExactlyOneExecuteWins ==
    (/\ PastGate(prevResp) /\ IdeaPassesChecks(prevResp) /\ ~Attributable(prevResp)
     /\ lastResp.op = "execute" /\ lastResp.store = "memory"
     /\ lastResp.id = prevResp.id)
    => /\ Succeeded(prevResp) /\ prevResp.after = "executed"
       /\ ~Succeeded(lastResp) /\ InvalidStatus(lastResp)
       /\ StoredIdea(lastResp.id).status = "executed"
       /\ OrdersOfPair <= 1

\* C3: after an execute request the idea is executed only if the venue
\* accepted the order of that attempt; a failed validation, a venue rejection
\* or a raising submission leave it approved, and an execute that follows a
\* failed one is let through the status gate without a new approval.
C3_ExecutedOnlyOnVenueSuccess ==
    /\ PastGate(lastResp) =>
         /\ StoredIdea(lastResp.id).status = lastResp.after
         /\ lastResp.after = "executed" => lastResp.venue = "accepted" /\ Succeeded(lastResp)
         /\ lastResp.venue # "accepted" => lastResp.after = "approved" /\ ~Succeeded(lastResp)
    /\ (/\ PastGate(prevResp) /\ ~Succeeded(prevResp)
        /\ lastResp.op = "execute" /\ lastResp.store = "memory"
        /\ lastResp.id = prevResp.id)
       => lastResp.before = "approved" /\ lastResp.code \notin {400, 404}
C3_Witness ==
    /\ PastGate(prevResp) /\ prevResp.venue = "rejected" /\ prevResp.after = "approved"
    /\ PastGate(lastResp) /\ lastResp.id = prevResp.id
    /\ lastResp.venue = "accepted" /\ StoredIdea(lastResp.id).status = "executed"
    /\ Len(venueOrders) = 2

\* C4: a status of rejected, executed or cancelled is final: no step of either
\* surface changes the status of an idea that has one.
C4_TerminalStatusesFinal ==
    [][/\ \A f \in FileIds :
            (files[f] # NoFile /\ files[f].status \in Terminal)
            => (files'[f] # NoFile /\ files'[f].status = files[f].status)
       /\ \A k \in 1..Len(activeIdeas) :
            activeIdeas[k].status \in Terminal
            => \A j \in 1..Len(activeIdeas') :
                 activeIdeas'[j].id = activeIdeas[k].id
                 => activeIdeas'[j].status = activeIdeas[k].status]_vars

\* C5: a lifecycle operation the idea's current status does not permit fails
\* with an error naming that status, and changes no field of the idea.
Permits(op, status) ==
    IF op = "approve" THEN status = "pending_approval"
    ELSE IF op \in {"reject", "cancel"} THEN status \in {"pending_approval", "approved"}
    ELSE IF op = "execute" THEN status = "approved"
    ELSE TRUE
C5_InvalidTransitionsFail ==
    (/\ lastResp.op \in {"approve", "reject", "cancel", "execute"}
     /\ lastResp.before \in Statuses
     /\ ~Permits(lastResp.op, lastResp.before))
    => InvalidStatus(lastResp) /\ ~lastResp.changed /\ lastResp.after = lastResp.before

\* C6: of an execute and a reject racing on the same approved idea (which
\* passes the safety checks, the execute stopped by no venue refusal), exactly one takes
\* effect and the other fails with an invalid-status error; no idea is
\* rejected once the venue has accepted an order for it.
RacePair(a, b) ==
    /\ a.op = "execute" /\ b.op = "reject"
    /\ a.store = "memory" /\ b.store = "memory" /\ a.id = b.id
    /\ prevResp.before = "approved"
    /\ IdeaPassesChecks(a) /\ ~Attributable(a)
ExactlyOneWins(a, b) ==
    \/ Succeeded(a) /\ InvalidStatus(b)
    \/ Succeeded(b) /\ InvalidStatus(a)
C6_ExecuteRejectRace ==
    /\ RacePair(prevResp, lastResp) => ExactlyOneWins(prevResp, lastResp)
    /\ RacePair(lastResp, prevResp) => ExactlyOneWins(lastResp, prevResp)
    /\ \A k \in 1..Len(activeIdeas) :
         activeIdeas[k].status = "rejected"
         => \A i \in 1..Len(venueOrders) :
              ~(venueOrders[i].idea_id = activeIdeas[k].id
                /\ venueOrders[i].outcome = "accepted")

\* C9: an execute request on an approved idea that passes the safety checks
\* ends with the idea executed and the venue's order identifier returned,
\* unless the symbol lookup fails or the venue does not accept the order.
C9_ExecuteValidIdea ==
    (PastGate(lastResp) /\ IdeaPassesChecks(lastResp)) =>
        \/ /\ Succeeded(lastResp) /\ lastResp.after = "executed"
           /\ StoredIdea(lastResp.id).status = "executed"
           /\ lastResp.venue = "accepted" /\ lastResp.order_id # 0
        \/ Attributable(lastResp)

\* The value of a decimal string, in 1e-5.
PlanRisk(plan) == plan.riskPct[2] * 100

\* C13: for every confidence in 0..100, both values of rr-adequate and every
\* risk cap, schedule_action returns observe with riskPct 0 below 60,
\* pending_only with riskPct min(cap/2, 0.02) from 60 to 74, wait_rr with
\* riskPct 0 from 75 when rr is not adequate, and open_or_scale with riskPct
\* equal to the cap from 75 when rr is adequate.
C13_ScheduleTable ==
    call.op = "schedule_action" =>
        /\ call.plan.riskPct[1] = "dec"
        /\ IF call.confidence < 60
           THEN call.plan.action = "observe" /\ PlanRisk(call.plan) = 0
           ELSE IF call.confidence <= 74
           THEN /\ call.plan.action = "pending_only"
                /\ 2 * PlanRisk(call.plan) = Min2(call.risk_cap, 2 * 2000)
           ELSE IF ~call.min_rr_ok
           THEN call.plan.action = "wait_rr" /\ PlanRisk(call.plan) = 0
           ELSE call.plan.action = "open_or_scale" /\ PlanRisk(call.plan) = call.risk_cap

\* The weighted sum of the claim, and its clamp.
B2N(b) == IF b THEN 1 ELSE 0
WeightedSum(c) ==
    30 * B2N(c.flags.entry) + 25 * B2N(c.flags.strong) - 15 * B2N(c.flags.weak)
    - 40 * B2N(c.flags.exit) + 10 * B2N(c.align_ok) + c.news_penalty
ClampedSum(c) ==
    IF WeightedSum(c) < 0 THEN 0 ELSE IF WeightedSum(c) > 100 THEN 100 ELSE WeightedSum(c)

\* C14: for every combination of the four flags, the alignment boolean and the
\* penalty, confidence_score is 30*entry + 25*strong - 15*weak - 40*exit +
\* 10*align + penalty clamped to [0, 100]; get_score_breakdown reports that
\* value as final_score and the unclamped sum as raw_total.
C14_ConfidenceIsClampedSum ==
    /\ call.op = "confidence_score" =>
          call.score = ClampedSum(call) /\ call.score \in 0..100
    /\ call.op = "get_score_breakdown" =>
          /\ call.breakdown.final_score
               = confidence_score(call.flags, call.align_ok, call.news_penalty)
          /\ call.breakdown.final_score = ClampedSum(call)
          /\ call.breakdown.raw_total = WeightedSum(call)

\* C14 witness: a breakdown was taken of flags whose weighted sum lies above
\* 100, reported unclamped as raw_total and clamped as final_score.
C14_Witness ==
    /\ call.op = "get_score_breakdown"
    /\ WeightedSum(call) > 100
    /\ call.breakdown.raw_total > 100
    /\ call.breakdown.final_score = 100

\* The flag the claim gives a category.
SpecFlag(c, t) ==
    /\ t \in DOMAIN c.conditions
    /\ c.conditions[t] # {}
    /\ \A n \in c.conditions[t] : n \in DOMAIN c.facts /\ c.facts[n] = TRUE

\* C15: for each of entry, exit, strong and weak, evaluate_conditions sets the
\* flag to true if and only if the category's condition list is non-empty and
\* every fact named in it is present in the fact set with value true.
C15_FlagIffAllFactsTrue ==
    call.op = "evaluate_conditions" =>
        \A t \in Categories : call.flags[t] <=> SpecFlag(call, t)

\* C15 witness: one evaluation with a true flag, a category with an empty
\* list and a category without a list.
C15_Witness ==
    /\ call.op = "evaluate_conditions"
    /\ call.flags.entry
    /\ "exit" \in DOMAIN call.conditions /\ call.conditions["exit"] = {}
    /\ "weak" \notin DOMAIN call.conditions
    /\ "strong" \in DOMAIN call.conditions /\ call.conditions["strong"] # {}
    /\ ~call.flags.strong

\* |target - entry| / |entry - stop| of a document, in hundredths.
RewardRisk(doc) ==
    RoundHalfEven(Abs(doc.take_profit - doc.entry_price) * 100,
                  Abs(doc.entry_price - doc.stop_loss))
PricesOf(doc) == <<doc.entry_price, doc.stop_loss, doc.take_profit>>

\* C16: an approval whose manual overrides change entry, stop or target
\* leaves the idea's rr_ratio equal to |target - entry| / |entry - stop| of
\* the overridden prices.
C16_ApproveRecomputesRR ==
    [][\A f \in FileIds :
          (/\ files[f] # NoFile
           /\ lastResp'.op = "approve" /\ lastResp'.id = f /\ lastResp'.code = 200
           /\ PricesOf(files'[f]) # PricesOf(files[f])
           /\ files'[f].entry_price # files'[f].stop_loss)
          => files'[f].rr_ratio = RewardRisk(files'[f])]_vars

\* The cycles the claims tell apart.
AbortCase(c) ==
    \/ ~c.enabled /\ ~c.force
    \/ c.rules[1] = "absent"
    \/ c.profile[1] = "absent"
    \/ c.bars < 50
ReadyCase(c) ==
    /\ c.enabled
    /\ c.rules[1] = "loaded" /\ c.profile[1] = "loaded"
    /\ c.bars >= 50
    /\ c.indicators[1] = "ok"

\* C17: evaluate produces no TradeIdea and writes no decision-log record when
\* evaluation is disabled and force is false, when the RuleSet is absent, when
\* the SymbolProfile is absent, or when fewer than 50 bars are available.
C17_AbortsWithoutIdeaOrRecord ==
    call.op = "evaluate" /\ AbortCase(call)
        => /\ call.result.idea = NoIdea
           /\ ~call.result.logged
           /\ decisionLog = call.log_before

\* C17 witness: a forced cycle with RuleSet and SymbolProfile loaded and
\* indicators computed, on 49 bars.
C17_Witness ==
    /\ call.op = "evaluate" /\ call.force /\ call.bars = 49
    /\ call.rules[1] = "loaded" /\ call.profile[1] = "loaded"
    /\ call.indicators[1] = "ok"
    /\ call.result.idea = NoIdea

\* C18: when evaluation is enabled, the RuleSet and SymbolProfile exist, at
\* least 50 bars are available and indicators are computed, evaluate returns a
\* TradeIdea in status pending_approval whose confidence, action and riskPct
\* are the outputs of the evaluator, scorer and scheduler chain on the cycle's
\* facts, and a decision-log record is written for it.
C18_ReadyCycleYieldsIdeaAndRecord ==
    call.op = "evaluate" /\ ReadyCase(call)
        => /\ call.result.idea # NoIdea
           /\ call.result.idea.status = "pending_approval"
           /\ call.result.idea.confidence
                \in {confidence_score(evaluate_conditions(call.indicators[3],
                                                         call.rules[2].conditions),
                                      a, FactoryNewsPenalty) : a \in BOOLEAN}
           /\ \E ok \in BOOLEAN, cap \in CapInputs :
                 LET plan == schedule_action(call.result.idea.confidence, ok, cap)
                 IN  /\ call.result.idea.action = plan.action
                     /\ call.result.idea.riskPct = plan.riskPct
           /\ call.result.logged
           /\ decisionLog = call.log_before \o call.result.row

\* The venue's constraints of a sizing call, when it has them.
ConstraintsAvailable(c) ==
    /\ c.sym[1] = "info"
    /\ c.sym[2].volume_min <= c.sym[2].volume_max
    /\ c.sym[2].volume_step > 0
ValidVolume(v, c) ==
    /\ c.sym[2].volume_min <= v /\ v <= c.sym[2].volume_max
    /\ v % c.sym[2].volume_step = 0

\* C19: whenever the venue's volume constraints are available,
\* calculate_position_size returns a volume between min_volume and max_volume
\* that is a whole multiple of volume_step, for every suggested volume and
\* every constraint triple with min <= max and step > 0.
C19_SizedVolumeIsValid ==
    call.op = "sized" /\ ConstraintsAvailable(call) => ValidVolume(call.sized, call)

\* C20: position sizing is idempotent on valid volumes: a suggested volume
\* that is a multiple of volume_step within [min_volume, max_volume] is
\* returned unchanged, and sizing the returned volume of any call again
\* returns the same volume.
C20_SizingIdempotent ==
    /\ call.op = "sized" /\ ConstraintsAvailable(call) /\ ValidVolume(call.suggested, call)
          => call.sized = call.suggested
    /\ call.op = "resized" => call.sized = call.first

\* ------------------------------------------------------ autonomy loop claims
\* The jobs the scheduler holds, stored or waiting to be stored.
ScheduledJobs == Len(loop.scheduler.jobs) + Len(loop.scheduler.pending)

\* C21: start() while the loop is running and stop() while it is not running
\* each return the explicit already-in-state result and leave the running
\* flag, the interval, the counters and the scheduler as they were; and at
\* every moment at most one periodic evaluation job is scheduled.
C21_StartStopIdempotent ==
    /\ (call.op = "start" /\ call.before.is_running) =>
          /\ ~call.success /\ call.message = "already running"
          /\ call.after = call.before
          /\ call.status.running
    /\ (call.op = "stop" /\ ~call.before.is_running) =>
          /\ ~call.success /\ call.message = "not running"
          /\ call.after = call.before
          /\ ~call.status.running
    /\ ScheduledJobs <= 1

\* start() was called on a running loop with another interval than the
\* running one, after a batch had counted, and one job is scheduled.
C21_Witness ==
    /\ call.op = "start" /\ call.before.is_running
    /\ call.before.evaluation_interval_minutes = 30
    /\ call.before.evaluation_count > 0
    /\ ScheduledJobs = 1
    /\ loop.evaluation_interval_minutes = 30

\* stop() was called on a loop that had run and been stopped.
C21_WitnessStop ==
    /\ call.op = "stop" /\ ~call.before.is_running
    /\ tally.lifecycle = "stopped"
    /\ ScheduledJobs = 0

\* A step in which the scheduler's worker begins a batch.
TimerBatchBegins ==
    /\ tally'.begun = tally.begun + 1
    /\ call'.op \in {"batch", "return"}
    /\ call'.thread = "timer"

\* A step of a batch that evaluate_now runs.
EvaluateNowStep ==
    \E t \in LoopThreads \ {"timer"} :
        threads'[t] # threads[t] \/ (call'.op = "return" /\ call'.thread = t)

\* C22: once stop() has returned successfully no timer-triggered batch begins
\* until a later start() succeeds (a timer batch begins only while the last
\* successful lifecycle call is a start and the running flag is set); a batch
\* in flight goes on; and no step of an evaluate_now batch, stopped or running,
\* changes the running flag.
C22_NoTimerBatchAfterStop ==
    [][ /\ TimerBatchBegins => (tally.lifecycle = "started" /\ loop.is_running)
        /\ EvaluateNowStep => loop'.is_running = loop.is_running ]_vars

\* The loop was started and stopped, and evaluate_now has since returned from
\* a batch that evaluated symbols and counted, the flag still down.
C22_Witness ==
    /\ tally.lifecycle = "stopped" /\ ~loop.is_running
    /\ call.op = "return" /\ call.thread = "now1"
    /\ call.batch.symbols # <<>>
    /\ call.status.evaluation_count = 1
    /\ ScheduledJobs = 0

\* C23: a batch invokes the evaluation callback exactly once for every symbol
\* of the registry it was given, whatever the other calls did, adds exactly
\* one to the cumulative evaluation count and one per failed call to the
\* cumulative error count, and returns normally. Stated of the first batch of
\* a run, which no other batch overlaps.
C23_BatchCountsOnce ==
    (call.op = "return" /\ tally.begun = 1) =>
        /\ call.success
        /\ \A i \in DOMAIN call.batch.called : call.batch.called[i] = 1
        /\ call.status.evaluation_count = 1
        /\ call.status.error_count = tally.failed

\* The part of C23 the code keeps: a batch over a registry that is not empty
\* does as C23 says, and a batch over an empty registry returns with both
\* counts as they were.
C23_NonEmptyBatchCountsOnce ==
    /\ (call.op = "return" /\ tally.begun = 1 /\ call.batch.symbols # <<>>) =>
          /\ call.success
          /\ \A i \in DOMAIN call.batch.called : call.batch.called[i] = 1
          /\ call.status.evaluation_count = 1
          /\ call.status.error_count = tally.failed
    /\ (call.op = "return" /\ tally.begun = 1 /\ call.batch.symbols = <<>>) =>
          /\ call.success
          /\ call.status.evaluation_count = 0
          /\ call.status.error_count = 0

\* A batch over two symbols, both of which failed, has returned.
C23_NonEmptyBatchReturned ==
    /\ call.op = "return" /\ tally.begun = 1
    /\ Len(call.batch.symbols) = 2 /\ tally.failed = 2

\* No batch is in flight.
Quiescent == \A t \in LoopThreads : threads[t].pc = "idle"

\* C26: when two batches over registries that are not empty have run, in any
\* interleaving (a timer batch and an evaluate_now batch, or two evaluate_now
\* batches), and both have completed, the evaluation count has grown by
\* exactly 2 and the error count by the number of failed symbol evaluations.
C26_NoLostCounterUpdate ==
    (Quiescent /\ tally.begun = 2 /\ tally.empty = 0) =>
        /\ loop.evaluation_count = 2
        /\ loop.error_count = tally.failed

\* ------------------------------------------------------ kill switch claim
\* The step in which the kill switch takes the global flag down.
KillActivates == settingsEnabled /\ ~settingsEnabled'
\* The ideas that exist before any activation: those of the initial store.
IdsBeforeActivation == {idea.id : idea \in SeedInputs}
\* The idea ids of the orders a step submits.
NewOrderIds ==
    {venueOrders'[k].idea_id : k \in (Len(venueOrders) + 1)..Len(venueOrders')}

FactoryCeiling == W_entry + W_strong + W_align

ProfileLevels(entry_price, direction, a, m, t) ==
    LET risk == a * m
        reward == a * m * t
    IN  IF direction = "long"
        THEN [sl |-> RoundHalfEven(entry_price * 10 - risk, 10),
              tp |-> RoundHalfEven(entry_price * 1000 + reward, 1000),
              rr |-> IF risk > 0 THEN t ELSE 0]
        ELSE [sl |-> RoundHalfEven(entry_price * 10 + risk, 10),
              tp |-> RoundHalfEven(entry_price * 1000 - reward, 1000),
              rr |-> IF risk > 0 THEN t ELSE 0]

\* C27: for a loaded SymbolProfile with volatility multiplier m and target
\* ratio t and a volatility reading a, the calculator returns the stop
\* price - a*m and the target price + a*m*t for a long idea (mirrored for a
\* short one) with ratio t, or ratio 0 when the risk distance is 0; the fixed
\* 1% / 2% levels with ratio 2.0 come back only when the calculation faults
\* (here: when the volatility reading is missing).
C27_StopTargetFromProfile ==
    call.op = "calculate_sl_tp" =>
        IF call.atr[1] = "num"
        THEN call.levels = ProfileLevels(call.entry_price, call.direction, call.atr[2],
                                         call.profile.atr_multiplier,
                                         call.profile.rr_target)
        ELSE call.levels.rr = 200

\* ------------------------------------------------------ daily loss claims
\* Reading the limit, or computing the day's P&L once a positive limit is
\* read, raises.
DailyLossCheckRaises ==
    \/ ~DailyLimit(limitsFile).ok
    \/ (DailyLimit(limitsFile).val > 0 /\ ~CalculateDailyPnl(ordersLog).ok)

\* The idea passes the six checks other than the daily-loss one.
PassesOtherSix(idea, sym) ==
    /\ idea.status = "approved"
    /\ idea.rr_ratio >= MinRR
    /\ idea.confidence >= MinConfidence
    /\ idea.volume > 0
    /\ SymbolErrors(sym) = <<>>
    /\ RiskPctErrors(idea.riskPct) = <<>>

\* C28: the daily-loss check fails open: when reading the limits or computing
\* the day's P&L raises, the check adds no violation, so an idea that passes
\* the other six checks is valid and execute_trade_idea submits its order.
C28_DailyLossFailsOpen ==
    (call.op = "execute" /\ DailyLossCheckRaises /\ PassesOtherSix(call.idea, call.sym)) =>
        /\ call.validation.valid
        /\ call.validation.errors = <<>>
        /\ Len(venueOrders) = 1 /\ venueOrders[1].idea_id = call.idea.id
        /\ call.result.error # "validation"

\* A positive limit was read, a malformed row made the P&L computation
\* raise, and the order of an idea passing the other checks went out.
C28_Witness ==
    /\ call.op = "execute" /\ PassesOtherSix(call.idea, call.sym)
    /\ DailyLimit(limitsFile).ok /\ DailyLimit(limitsFile).val > 0
    /\ ~CalculateDailyPnl(ordersLog).ok
    /\ call.validation.valid /\ call.result.success
    /\ Len(venueOrders) = 1

\* C29: execute_trade_idea never writes the order log from which the day's
\* P&L is computed: across every execution, successful or not, the log, the
\* computed daily P&L and the outcome of the daily-loss check stay as they
\* were, however many executions have gone before.
C29_ExecutionLeavesDailyPnl ==
    [][ (venueOrders' # venueOrders \/ executionLog' # executionLog) =>
            /\ ordersLog' = ordersLog
            /\ CalculateDailyPnl(ordersLog') = CalculateDailyPnl(ordersLog)
            /\ DailyLossErrors(limitsFile', ordersLog') =
                   DailyLossErrors(limitsFile, ordersLog) ]_vars

\* Two executions have succeeded with the day's loss 1.00 short of the
\* limit, and the check still passes.
C29_Witness ==
    /\ Len(venueOrders) = 2
    /\ \A k \in 1..2 : venueOrders[k].outcome = "accepted"
    /\ Len(executionLog) = 2
    /\ limitsFile = <<"dec", 25100>> /\ ordersLog = <<RowWin25>>
    /\ CalculateDailyPnl(ordersLog).val = 0 - 25000
    /\ DailyLossErrors(limitsFile, ordersLog) = <<>>

\* ------------------------------------------------------ terminal idea claim
TerminalStatuses == {"rejected", "executed", "cancelled"}
\* The trade parameters of a stored idea.
TradeParameters(doc) ==
    <<doc.entry_price, doc.stop_loss, doc.take_profit, doc.volume, doc.rr_ratio>>

\* C30: the entry price, stop, target, volume and rr_ratio of a stored idea
\* whose status is rejected, executed or cancelled are changed by no later
\* modify, approve (with or without overrides), reject or cancel request.
C30_TerminalIdeaIsFrozen ==
    [][ \A f \in FileIds :
          (/\ files[f] # NoFile
           /\ files[f].status \in TerminalStatuses
           /\ lastResp'.op \in {"modify", "approve", "reject", "cancel"}) =>
              /\ files'[f] # NoFile
              /\ TradeParameters(files'[f]) = TradeParameters(files[f]) ]_vars

\* s is an initial segment of t
IsPrefix(s, t) == Len(s) <= Len(t) /\ \A k \in 1..Len(s) : t[k] = s[k]

\* C12: the audit logs are append-only: no step modifies or removes a
\* record already written to the execution log or to the decision log.
C12_AuditLogsAppendOnly ==
    [][IsPrefix(executionLog, executionLog') /\ IsPrefix(decisionLog, decisionLog')]_vars

\* C10: no step removes a stored idea: every identity stored before the step
\* is stored after it, in the control surface's list and in the idea files.
C10_IdeasNeverRemoved ==
    [][/\ \A k \in 1..Len(activeIdeas) :
            \E j \in 1..Len(activeIdeas') : activeIdeas'[j].id = activeIdeas[k].id
       /\ \A f \in FileIds : files[f] # NoFile => files'[f] # NoFile]_vars

====
